---- MODULE Spec2Model ----
(***************************************************************************)
(* GOOSE protocol engine of the Uranus virtual IED / sniffer:              *)
(*   - GOOSEPublisher / GOOSEManager (code/pyiec61850_wrapper.py) and the  *)
(*     application thread that drives them (code/Publisher_Page.py);       *)
(*   - GOOSECaptureThread and GOOSEFilterDialog (code/Sniffer_Page.py).    *)
(* Thread 0 is the application (Qt GUI) thread; threads 1..MaxWorkers are  *)
(* the daemon threads created by publish_with_retransmission and           *)
(* start_cyclic_publish.  Every Python statement that reads or writes a    *)
(* shared field of the publisher is one step of the thread executing it.   *)
(***************************************************************************)
EXTENDS Integers, Sequences, FiniteSets, TLC

\* ---------------------------------------------------------------- bounds
MaxWorkers == 2
\* publish() is only entered while st_num and sq_num are below these caps
MaxSt == 3
MaxSq == 2
\* number of distinct non-empty value lists the GUI can hand to set_dataset
NumDatasets == 1
\* length of the retransmission interval list handed to the worker
NumIntervals == 1
\* number of captured messages handed to handle_goose_message in one run
MaxMsgs == 3
\* largest sqNum of a captured message
MaxCapSq == 2
\* number of rows in the filter dialog's table
MaxRows == 2
\* length of the arbitrary byte sequences handed to the parsers
MaxBuf == 4
\* capture sessions (sniffer instances) and network interfaces of the host
MaxSessions == 2
NumIfaces == 2

\* values of one dataset (one value list handed to set_dataset)
NumValues == 2

\* packets the capture loop receives or fails to receive
MaxFrames == 3

\* the longest dataset of a publication sent through encoder and decoder
MaxMembers == 2

VARIABLES
    st_num,          \* GOOSEPublisher.st_num
    sq_num,          \* GOOSEPublisher.sq_num
    goose_enabled,   \* GOOSEPublisher.goose_enabled
    dataset,         \* GOOSEPublisher.dataset: 0 = None, v = list built from value list v
    dataset_values,  \* GOOSEPublisher.dataset_values: 0 = [], v = value list v
    stop_event,      \* GOOSEPublisher._stop_retransmission (is_set)
    thread,          \* GOOSEPublisher._retransmission_thread: 0 = None, else thread id
    th,              \* per thread: program position and locals
    ui_values,       \* VirtualIEDSystem.dataset_values (the GUI's current values)
    last,            \* <<stNum, sqNum>> of the last message handed to the transport
    edit_base,       \* st_num when publish_message was last called
    last_messages,   \* GOOSECaptureThread.last_messages: goID -> (stNum, sqNum)
    filters,         \* GOOSECaptureThread.filters: <<>> = None, else the filter dicts
    show_retransmissions, \* GOOSECaptureThread.show_retransmissions
    message_count,   \* GOOSECaptureThread.message_count
    hist,            \* the messages handled so far, each with its computed flag
    out,             \* what handle_goose_message did with the last message
    data,            \* the bytes received by, or handed to the parsers of, EnhancedGOOSERawSniffer
    parsed,          \* the parser applied to data, what it returned and what it read
    sn,              \* per capture session: GOOSECaptureThread and its EnhancedGOOSERawSniffer
    promisc,         \* per interface: the kernel's promiscuous flag
    cmd_ok,          \* whether 'sudo ip link set ... promisc' succeeds on this host
    rs,              \* EnhancedGOOSERawSniffer: running, its counters, and how often it
                     \* called the parser and the callback
    linked,          \* the elements of the LinkedList GOOSEPublisher.dataset refers to
    sent,            \* the dataset elements of the last message handed to the transport
    pub,             \* the publication handed to the encoder, for the round trip
    delivered,       \* <<stNum, sqNum>> of the last message the transport accepted
    gh               \* GOOSEHandler: its control blocks, its publishers, its last call

\* the LinkedList behind GOOSEPublisher.dataset and what was sent from it
listvars == <<linked, sent, pub, delivered, gh>>

pubvars == <<st_num, sq_num, goose_enabled, dataset, dataset_values, stop_event,
             thread, th, ui_values, last, edit_base, listvars>>

\* the state of the raw sniffer (code/Sniffer_Raw.py)
rawvars == <<data, parsed, rs>>

\* the capture sessions and the host's interfaces
sesvars == <<sn, promisc, cmd_ok>>

capvars == <<last_messages, filters, show_retransmissions, message_count, hist, out,
             rawvars, sesvars>>

vars == <<pubvars, capvars>>

Threads == 0..MaxWorkers
\* no message has been handed to the transport yet
NoPayload == [any |-> FALSE, elements |-> <<>>]
Workers == 1..MaxWorkers
App == 0

\* A thread that does not exist (never started or already finished).
NoThread ==
    [pc |-> "none", kind |-> "none", inc |-> FALSE, tmp |-> 0, rpc |-> "none",
     ret |-> "none", cur |-> 0, val |-> 0, mk |-> "none"]

\* The application thread between two GUI events.
IdleApp == [NoThread EXCEPT !.pc = "idle", !.kind = "app"]

\* threading.Thread.is_alive
is_alive(w) == th[w].pc # "none"

\* program positions inside GOOSEPublisher.publish
PublishPcs == {"p_enabled", "p_dataset", "p_enable", "p_enable_flag", "p_recheck",
               "p_count", "p_st_write", "p_sq_reset", "p_sq_write", "p_send"}

\* program positions inside GOOSEPublisher.set_dataset at which line 632 has
\* cleared goose_enabled and enable() has not yet set it again
SetDatasetPcs == {"s_none", "s_enable", "s_enable_flag"}

\* GOOSEHandler.__init__ without SCL data, goose_handler.py 37-56
NoHandler ==
    [goose_controls |-> <<>>, goose_publishers |-> {}, fn |-> "none", arg |-> "",
     ret |-> "none", printed |-> "none"]

\* no publication is on its way through the encoder
NoPublication == [dataset |-> <<>>]

\* -------------------------------------------------- GOOSEPublisher.__init__
\* state after GOOSEManager.start_publisher(auto_publish=False)
InitPublisher ==
    /\ st_num = 0
    /\ sq_num = 0
    /\ goose_enabled = FALSE
    /\ dataset = 0
    /\ dataset_values = 0
    /\ stop_event = FALSE
    /\ thread = 0
    /\ th = [t \in Threads |-> IF t = App THEN IdleApp ELSE NoThread]
    /\ ui_values = 1
    /\ last = <<0, 0>>
    /\ edit_base = 0
    /\ linked = <<>>
    /\ sent = NoPayload
    /\ pub = NoPublication
    /\ delivered = <<0, 0>>
    /\ gh = NoHandler

\* the caller's view of a call: set the callee's entry point and return point
Call(t, entry, rpc) == [th[t] EXCEPT !.pc = entry, !.rpc = rpc, !.ret = "none"]

\* a publish() that lets a transport failure escape into the worker, which
\* its except clause ends
ReturnOrRaise(t, result) ==
    IF result = "send_failed" /\ t # App THEN NoThread
    ELSE [th[t] EXCEPT !.pc = th[t].rpc, !.rpc = "none", !.ret = result, !.tmp = 0]

\* return from publish / set_dataset / stop_retransmission to the caller
Return(t, result) ==
    [th[t] EXCEPT !.pc = th[t].rpc, !.rpc = "none", !.ret = result, !.tmp = 0]


\* ------------------------------------------------ GOOSEPublisher.publish
\* a publish() that reports success although goose_enabled is False
RefusedAsOk == "ok"

\* a publisher whose st_num stays where it was on a state change
SameSt(read) == read

\* the result of a call refused at the goose_enabled check: whether the
\* application thread is inside set_dataset between clearing and restoring the flag
RefusedResult ==
    IF th[App].pc \in SetDatasetPcs
    THEN "disabled_in_update" ELSE "disabled"

\* lines 732-738: the publisher exists; refuse when goose_enabled is False
PublishCheckEnabled(t) ==
    /\ th[t].pc = "p_enabled"
    /\ th' = [th EXCEPT ![t] = IF ~goose_enabled THEN Return(t, RefusedResult)
                               ELSE [@ EXCEPT !.pc = "p_dataset"]]
    /\ UNCHANGED <<st_num, sq_num, goose_enabled, dataset, dataset_values,
                   stop_event, thread, ui_values, last, edit_base, capvars, listvars>>

\* line 742: "if not self.dataset" decides whether publish calls enable()
PublishCheckDataset(t) ==
    /\ th[t].pc = "p_dataset"
    /\ th' = [th EXCEPT ![t].pc = IF dataset = 0 THEN "p_enable" ELSE "p_recheck"]
    /\ UNCHANGED <<st_num, sq_num, goose_enabled, dataset, dataset_values,
                   stop_event, thread, ui_values, last, edit_base, capvars, listvars>>

\* line 744, enable(create_default=False), lines 703-723: with no values it
\* returns at once, otherwise it builds the LinkedList from dataset_values
PublishEnable(t) ==
    /\ th[t].pc = "p_enable"
    /\ IF dataset_values = 0
       THEN /\ th' = [th EXCEPT ![t].pc = "p_recheck"]
            /\ UNCHANGED dataset
       ELSE /\ dataset' = dataset_values
            /\ th' = [th EXCEPT ![t].pc = "p_enable_flag"]
    /\ UNCHANGED <<st_num, sq_num, goose_enabled, dataset_values,
                   stop_event, thread, ui_values, last, edit_base, capvars, listvars>>

\* line 725 reached from publish: self.goose_enabled = True
PublishEnableFlag(t) ==
    /\ th[t].pc = "p_enable_flag"
    /\ goose_enabled' = TRUE
    /\ th' = [th EXCEPT ![t].pc = "p_recheck"]
    /\ UNCHANGED <<st_num, sq_num, dataset, dataset_values,
                   stop_event, thread, ui_values, last, edit_base, capvars, listvars>>

\* lines 747-749: still no dataset, publish returns False
PublishRecheck(t) ==
    /\ th[t].pc = "p_recheck"
    /\ th' = [th EXCEPT ![t] = IF dataset = 0 THEN Return(t, "no_dataset")
                               ELSE [@ EXCEPT !.pc = "p_count"]]
    /\ UNCHANGED <<st_num, sq_num, goose_enabled, dataset, dataset_values,
                   stop_event, thread, ui_values, last, edit_base, capvars, listvars>>

\* lines 752-755 / 760: the read half of "self.st_num += 1" or "self.sq_num += 1"
PublishCount(t) ==
    /\ th[t].pc = "p_count"
    /\ th' = [th EXCEPT ![t] = IF th[t].inc
                               THEN [@ EXCEPT !.tmp = st_num, !.pc = "p_st_write"]
                               ELSE [@ EXCEPT !.tmp = sq_num, !.pc = "p_sq_write"]]
    /\ UNCHANGED <<st_num, sq_num, goose_enabled, dataset, dataset_values,
                   stop_event, thread, ui_values, last, edit_base, capvars, listvars>>

\* line 755: the value "self.st_num += 1" stores, from the value it read
NextSt(read) == read + 1

\* line 755: the write half of "self.st_num += 1"
PublishStWrite(t) ==
    /\ th[t].pc = "p_st_write"
    /\ st_num' = NextSt(th[t].tmp)
    /\ th' = [th EXCEPT ![t].pc = "p_sq_reset", ![t].tmp = 0]
    /\ UNCHANGED <<sq_num, goose_enabled, dataset, dataset_values,
                   stop_event, thread, ui_values, last, edit_base, capvars, listvars>>

\* a publisher that leaves sq_num alone after a state change
KeepSq(old) == old

\* the value line 756 stores in sq_num after a state change
ResetSq(old) == 0

\* line 756: self.sq_num = 0
PublishSqReset(t) ==
    /\ th[t].pc = "p_sq_reset"
    /\ sq_num' = ResetSq(sq_num)
    /\ th' = [th EXCEPT ![t].pc = "p_send"]
    /\ UNCHANGED <<st_num, goose_enabled, dataset, dataset_values,
                   stop_event, thread, ui_values, last, edit_base, capvars, listvars>>

\* a publisher that sends a retransmission with the sqNum of the message before
SameSq(read) == read

\* line 760: the value "self.sq_num += 1" stores, from the value it read
NextSq(read) == read + 1

\* lines 760-762: the write half of "self.sq_num += 1" (and setSqNum)
PublishSqWrite(t) ==
    /\ th[t].pc = "p_sq_write"
    /\ sq_num' = NextSq(th[t].tmp)
    /\ th' = [th EXCEPT ![t].pc = "p_send", ![t].tmp = 0]
    /\ UNCHANGED <<st_num, goose_enabled, dataset, dataset_values,
                   stop_event, thread, ui_values, last, edit_base, capvars, listvars>>

\* lines 766-783: GoosePublisher_publish(self.publisher, self.dataset) hands the
\* message with the current counters to the transport; the transport reports
\* success (0) or an error.  A dataset that a concurrent set_dataset has set to
\* None in the meantime makes the call raise, which line 779 turns into False.
PublishSend(t) ==
    /\ th[t].pc = "p_send"
    /\ IF dataset = 0
       THEN /\ th' = [th EXCEPT ![t] = Return(t, "error")]
            /\ UNCHANGED last
       ELSE /\ \E ok \in BOOLEAN :
                 th' = [th EXCEPT ![t] = Return(t, IF ok THEN "ok" ELSE "send_failed")]
            /\ last' = <<st_num, sq_num>>
    /\ UNCHANGED <<st_num, sq_num, goose_enabled, dataset, dataset_values,
                   stop_event, thread, ui_values, edit_base, capvars, listvars>>

\* one step of publish() by thread t
Publish(t) ==
    \/ PublishCheckEnabled(t)
    \/ PublishCheckDataset(t)
    \/ PublishEnable(t)
    \/ PublishEnableFlag(t)
    \/ PublishRecheck(t)
    \/ PublishCount(t)
    \/ PublishStWrite(t)
    \/ PublishSqReset(t)
    \/ PublishSqWrite(t)
    \/ PublishSend(t)

\* publish() is entered while the counters are below the caps of the model
CanPublish == st_num < MaxSt /\ sq_num < MaxSq

\* ------------------------------------------- GOOSEPublisher.set_dataset
\* line 628: self.dataset_values = new_dataset_values
SetDatasetValues(t) ==
    /\ th[t].pc = "s_values"
    /\ dataset_values' = th[t].val
    /\ th' = [th EXCEPT ![t].pc = "s_disable"]
    /\ UNCHANGED <<st_num, sq_num, goose_enabled, dataset,
                   stop_event, thread, ui_values, last, edit_base, capvars, listvars>>

\* line 632: self.goose_enabled = False
SetDatasetDisable(t) ==
    /\ th[t].pc = "s_disable"
    /\ goose_enabled' = FALSE
    /\ th' = [th EXCEPT ![t].pc = "s_none"]
    /\ UNCHANGED <<st_num, sq_num, dataset, dataset_values,
                   stop_event, thread, ui_values, last, edit_base, capvars, listvars>>

\* line 633: self.dataset = None
SetDatasetNone(t) ==
    /\ th[t].pc = "s_none"
    /\ dataset' = 0
    /\ th' = [th EXCEPT ![t].pc = "s_enable"]
    /\ UNCHANGED <<st_num, sq_num, goose_enabled, dataset_values,
                   stop_event, thread, ui_values, last, edit_base, capvars, listvars>>

\* lines 636-637 and enable() lines 703-723: rebuild the LinkedList when there
\* are values, otherwise leave the publisher disabled
SetDatasetEnable(t) ==
    /\ th[t].pc = "s_enable"
    /\ IF dataset_values = 0
       THEN /\ th' = [th EXCEPT ![t] = Return(t, "none")]
            /\ UNCHANGED dataset
       ELSE /\ dataset' = dataset_values
            /\ th' = [th EXCEPT ![t].pc = "s_enable_flag"]
    /\ UNCHANGED <<st_num, sq_num, goose_enabled, dataset_values,
                   stop_event, thread, ui_values, last, edit_base, capvars, listvars>>

\* line 725 reached from set_dataset: self.goose_enabled = True
SetDatasetEnableFlag(t) ==
    /\ th[t].pc = "s_enable_flag"
    /\ goose_enabled' = TRUE
    /\ th' = [th EXCEPT ![t] = Return(t, "none")]
    /\ UNCHANGED <<st_num, sq_num, dataset, dataset_values,
                   stop_event, thread, ui_values, last, edit_base, capvars, listvars>>

\* one step of set_dataset() by thread t
SetDataset(t) ==
    \/ SetDatasetValues(t)
    \/ SetDatasetDisable(t)
    \/ SetDatasetNone(t)
    \/ SetDatasetEnable(t)
    \/ SetDatasetEnableFlag(t)

\* ------------------------------------ GOOSEPublisher.stop_retransmission
\* lines 857-858: only a live thread is asked to stop
StopCheck(t) ==
    /\ th[t].pc = "stop_chk"
    /\ IF thread # 0 /\ is_alive(thread)
       THEN /\ stop_event' = TRUE
            /\ th' = [th EXCEPT ![t].pc = "stop_join"]
       ELSE /\ th' = [th EXCEPT ![t] = Return(t, "none")]
            /\ UNCHANGED stop_event
    /\ UNCHANGED <<st_num, sq_num, goose_enabled, dataset, dataset_values,
                   thread, ui_values, last, edit_base, capvars, listvars>>

\* join(timeout=1.0) is over: the thread has ended, or the second has elapsed
\* while the thread is blocked inside publish() in the transport call of line 766
\* (a thread waiting on the event is woken by set() and ends)
JoinOver(w) == ~is_alive(w) \/ th[w].pc = "p_send"

\* line 859: self._retransmission_thread.join(timeout=1.0)
StopJoin(t) ==
    /\ th[t].pc = "stop_join"
    /\ JoinOver(thread)
    /\ th' = [th EXCEPT ![t] = Return(t, IF is_alive(thread) THEN "join_timeout"
                                         ELSE "joined")]
    /\ UNCHANGED <<st_num, sq_num, goose_enabled, dataset, dataset_values,
                   stop_event, thread, ui_values, last, edit_base, capvars, listvars>>

\* one step of stop_retransmission() by thread t
StopRetransmission(t) ==
    \/ StopCheck(t)
    \/ StopJoin(t)

\* ---------------- publish_with_retransmission / start_cyclic_publish
\* lines 797-804: build the dataset if it is missing and there are values
\* (enable, lines 713-725); without a dataset no thread is started
PwrEnsure(t) ==
    /\ th[t].pc = "pwr_ensure"
    /\ IF dataset = 0 /\ dataset_values # 0
       THEN /\ dataset' = dataset_values
            /\ goose_enabled' = TRUE
            /\ th' = [th EXCEPT ![t].pc = "th_clear", ![t].ret = "none"]
       ELSE /\ th' = [th EXCEPT ![t].pc = IF dataset = 0 THEN "op_done" ELSE "th_clear",
                               ![t].ret = "none"]
            /\ UNCHANGED <<dataset, goose_enabled>>
    /\ UNCHANGED <<st_num, sq_num, dataset_values,
                   stop_event, thread, ui_values, last, edit_base, capvars, listvars>>

\* lines 807 / 865: self._stop_retransmission.clear()
ThreadClear(t) ==
    /\ th[t].pc = "th_clear"
    /\ stop_event' = FALSE
    /\ th' = [th EXCEPT ![t].pc = "th_start", ![t].ret = "none"]
    /\ UNCHANGED <<st_num, sq_num, goose_enabled, dataset, dataset_values,
                   thread, ui_values, last, edit_base, capvars, listvars>>

\* a worker that begins with the periodic messages of the steady state
EntrySteady(kind) == "w_steady_chk"

\* the first program position of a new thread of the given kind
EntryOf(kind) == IF kind = "cyclic" THEN "c_chk" ELSE "w_start"

\* the identifiers a new thread can take
FreeSlots == {w \in Workers : ~is_alive(w)}

\* lines 808-814 / 866-871: create the thread, store it in
\* _retransmission_thread and start it
ThreadStart(t) ==
    /\ th[t].pc = "th_start"
    /\ FreeSlots # {}
    /\ LET w == CHOOSE x \in FreeSlots : \A y \in FreeSlots : x <= y
       IN /\ thread' = w
          /\ th' = [th EXCEPT ![w] = [NoThread EXCEPT !.pc = EntryOf(th[t].mk),
                                                      !.kind = th[t].mk],
                              ![t].pc = "op_done"]
    /\ UNCHANGED <<st_num, sq_num, goose_enabled, dataset, dataset_values,
                   stop_event, ui_values, last, edit_base, capvars, listvars>>

\* ------------------------------- GOOSEPublisher._retransmission_worker
\* a thread ends: it is no longer alive
Exit(w) == [th EXCEPT ![w] = NoThread]

\* line 823: the first transmission, publish(increase_stnum=True)
WorkerStart(w) ==
    /\ th[w].pc = "w_start"
    /\ CanPublish
    /\ th' = [th EXCEPT ![w] = [Call(w, "p_enabled", "w_first") EXCEPT !.inc = TRUE]]
    /\ UNCHANGED <<st_num, sq_num, goose_enabled, dataset, dataset_values,
                   stop_event, thread, ui_values, last, edit_base, capvars, listvars>>

\* lines 823-829: the first transmission has returned; enter the interval loop
WorkerFirst(w) ==
    /\ th[w].pc = "w_first"
    /\ th' = [th EXCEPT ![w].pc = IF NumIntervals > 0 THEN "w_wait" ELSE "w_steady_chk",
                        ![w].ret = "none", ![w].inc = FALSE]
    /\ UNCHANGED <<st_num, sq_num, goose_enabled, dataset, dataset_values,
                   stop_event, thread, ui_values, last, edit_base, capvars, listvars>>

\* lines 831-836: wait one interval; a set event breaks out of the for loop,
\* otherwise the retransmission publish(increase_stnum=False) is called
WorkerWait(w) ==
    /\ th[w].pc = "w_wait"
    /\ IF stop_event
       THEN th' = [th EXCEPT ![w].pc = "w_steady_chk"]
       ELSE /\ CanPublish
            /\ th' = [th EXCEPT ![w] = [Call(w, "p_enabled", "w_next") EXCEPT !.inc = FALSE]]
    /\ UNCHANGED <<st_num, sq_num, goose_enabled, dataset, dataset_values,
                   stop_event, thread, ui_values, last, edit_base, capvars, listvars>>

\* lines 836-839 and the for statement: next interval, or the list is exhausted
WorkerNext(w) ==
    /\ th[w].pc = "w_next"
    /\ th' = [th EXCEPT ![w].cur = @ + 1, ![w].ret = "none",
                        ![w].pc = IF th[w].cur + 1 < NumIntervals THEN "w_wait"
                                  ELSE "w_steady_chk"]
    /\ UNCHANGED <<st_num, sq_num, goose_enabled, dataset, dataset_values,
                   stop_event, thread, ui_values, last, edit_base, capvars, listvars>>

\* line 843: while not self._stop_retransmission.is_set()
WorkerSteadyCheck(w) ==
    /\ th[w].pc = "w_steady_chk"
    /\ th' = IF stop_event THEN Exit(w)
             ELSE [th EXCEPT ![w].pc = "w_steady_wait", ![w].ret = "none"]
    /\ UNCHANGED <<st_num, sq_num, goose_enabled, dataset, dataset_values,
                   stop_event, thread, ui_values, last, edit_base, capvars, listvars>>

\* lines 844-848: wait the last interval, then the periodic transmission
WorkerSteadyWait(w) ==
    /\ th[w].pc = "w_steady_wait"
    /\ IF stop_event
       THEN th' = Exit(w)
       ELSE /\ CanPublish
            /\ th' = [th EXCEPT ![w] = [Call(w, "p_enabled", "w_steady_chk")
                                            EXCEPT !.inc = FALSE]]
    /\ UNCHANGED <<st_num, sq_num, goose_enabled, dataset, dataset_values,
                   stop_event, thread, ui_values, last, edit_base, capvars, listvars>>

\* ------------------------------------- GOOSEPublisher._cyclic_worker
\* lines 876-877: while the event is not set, publish(increase_stnum=False)
CyclicCheck(w) ==
    /\ th[w].pc = "c_chk"
    /\ IF stop_event
       THEN th' = Exit(w)
       ELSE /\ CanPublish
            /\ th' = [th EXCEPT ![w] = [Call(w, "p_enabled", "c_wait") EXCEPT !.inc = FALSE]]
    /\ UNCHANGED <<st_num, sq_num, goose_enabled, dataset, dataset_values,
                   stop_event, thread, ui_values, last, edit_base, capvars, listvars>>

\* lines 878-879: wait the interval; a set event ends the thread
CyclicWait(w) ==
    /\ th[w].pc = "c_wait"
    /\ th' = IF stop_event THEN Exit(w)
             ELSE [th EXCEPT ![w].pc = "c_chk", ![w].ret = "none"]
    /\ UNCHANGED <<st_num, sq_num, goose_enabled, dataset, dataset_values,
                   stop_event, thread, ui_values, last, edit_base, capvars, listvars>>

\* one step of a retransmission or cyclic worker thread
Worker(w) ==
    \/ WorkerStart(w)
    \/ WorkerFirst(w)
    \/ WorkerWait(w)
    \/ WorkerNext(w)
    \/ WorkerSteadyCheck(w)
    \/ WorkerSteadyWait(w)
    \/ CyclicCheck(w)
    \/ CyclicWait(w)

\* ----------------------------------- the application thread (Qt GUI)
\* Publisher_Page.py 1075-1163: the 1 s heartbeat timer fires and
\* publish_goose_dataset(heartbeat=True) calls set_dataset with the GUI's values
Heartbeat ==
    /\ th[App].pc = "idle"
    /\ CanPublish
    /\ th' = [th EXCEPT ![App] = [Call(App, "s_values", "hb_publish")
                                     EXCEPT !.val = ui_values]]
    /\ UNCHANGED <<st_num, sq_num, goose_enabled, dataset, dataset_values,
                   stop_event, thread, ui_values, last, edit_base, capvars, listvars>>

\* Publisher_Page.py 1165: publisher.publish(increase_stnum=False)
HeartbeatPublish ==
    /\ th[App].pc = "hb_publish"
    /\ th' = [th EXCEPT ![App] = [Call(App, "p_enabled", "op_done") EXCEPT !.inc = FALSE]]
    /\ UNCHANGED <<st_num, sq_num, goose_enabled, dataset, dataset_values,
                   stop_event, thread, ui_values, last, edit_base, capvars, listvars>>

\* Publisher_Page.py 802-825 and 1171, wrapper 1944-1957: the user edits a value
\* that differs from the old one; publish_message starts with stop_retransmission
NewValues(old) == (old % NumDatasets) + 1

EditValue ==
    /\ th[App].pc = "idle"
    /\ CanPublish
    /\ ui_values' = NewValues(ui_values)
    /\ edit_base' = st_num
    /\ th' = [th EXCEPT ![App] = [Call(App, "stop_chk", "pm_set")
                                     EXCEPT !.val = NewValues(ui_values),
                                            !.mk = "retrans"]]
    /\ UNCHANGED <<st_num, sq_num, goose_enabled, dataset, dataset_values,
                   stop_event, thread, last, capvars, listvars>>

\* wrapper 1986: self.publisher.set_dataset(values)
PublishMessageSet ==
    /\ th[App].pc = "pm_set"
    /\ th' = [th EXCEPT ![App] = Call(App, "s_values", "pm_publish")]
    /\ UNCHANGED <<st_num, sq_num, goose_enabled, dataset, dataset_values,
                   stop_event, thread, ui_values, last, edit_base, capvars, listvars>>

\* wrapper 1993: the immediate self.publisher.publish(increase_stnum=True)
PublishMessagePublish ==
    /\ th[App].pc = "pm_publish"
    /\ th' = [th EXCEPT ![App] = [Call(App, "p_enabled", "pwr_stop") EXCEPT !.inc = TRUE]]
    /\ UNCHANGED <<st_num, sq_num, goose_enabled, dataset, dataset_values,
                   stop_event, thread, ui_values, last, edit_base, capvars, listvars>>

\* wrapper 2000 and 794: publish_with_retransmission stops the running thread
PwrStop ==
    /\ th[App].pc = "pwr_stop"
    /\ th' = [th EXCEPT ![App] = [Call(App, "stop_chk", "pwr_ensure") EXCEPT !.inc = FALSE]]
    /\ UNCHANGED <<st_num, sq_num, goose_enabled, dataset, dataset_values,
                   stop_event, thread, ui_values, last, edit_base, capvars, listvars>>

\* wrapper 861-863: start_cyclic_publish begins with stop_retransmission
StartCyclicPublish ==
    /\ th[App].pc = "idle"
    /\ th' = [th EXCEPT ![App] = [Call(App, "stop_chk", "th_clear") EXCEPT !.mk = "cyclic"]]
    /\ UNCHANGED <<st_num, sq_num, goose_enabled, dataset, dataset_values,
                   stop_event, thread, ui_values, last, edit_base, capvars, listvars>>

\* wrapper 883-885: stop_cyclic_publish is stop_retransmission
StopCyclicPublish ==
    /\ th[App].pc = "idle"
    /\ thread # 0
    /\ th' = [th EXCEPT ![App] = Call(App, "stop_chk", "op_done")]
    /\ UNCHANGED <<st_num, sq_num, goose_enabled, dataset, dataset_values,
                   stop_event, thread, ui_values, last, edit_base, capvars, listvars>>

\* the GUI handler returns to the event loop
OpDone ==
    /\ th[App].pc = "op_done"
    /\ th' = [th EXCEPT ![App] = IdleApp]
    /\ UNCHANGED <<st_num, sq_num, goose_enabled, dataset, dataset_values,
                   stop_event, thread, ui_values, last, edit_base, capvars, listvars>>

\* ------------------------------------------------------- capture thread
\* GOOSECaptureThread.__init__, Sniffer_Page.py 490-503
\* A MAC address as text: the address and whether its hex digits are written
\* in upper case.  str.lower() keeps the address and drops the case.
Mac(a, up) == [a |-> a, up |-> up]

Lower(m) == [m EXCEPT !.up = FALSE]

\* an empty dict
EmptyDict == [k \in {} |-> 0]

\* no message handled yet
NoMessage == [goID |-> "", stNum |-> 0, sqNum |-> 0, src_mac |-> Mac("", FALSE),
              dst_mac |-> Mac("", FALSE), appId |-> 0]

\* ------------------------------- EnhancedGOOSERawSniffer: the BER parsers
\* Positions are Python's: the first byte of a buffer is at position 0.  Every
\* parser returns, next to its result, idx: the index expressions data[p] it
\* evaluated, each as <<p, len(data)>>, and sl: the value slices data[a:b] it
\* took, each as <<a, b, len(data)>>.

\* data[pos]; an index past the end raises IndexError, shown here as -1
ByteAt(buf, pos) == IF pos < Len(buf) THEN buf[pos + 1] ELSE -1

\* data[from:to]; a slice past the end is cut at the end
Slice(buf, from, to) ==
    IF to <= Len(buf) THEN SubSeq(buf, from + 1, to) ELSE SubSeq(buf, from + 1, Len(buf))

\* int.from_bytes(b, 'big')
RECURSIVE BigEndian(_)
BigEndian(b) ==
    IF b = <<>> THEN 0 ELSE BigEndian(SubSeq(b, 1, Len(b) - 1)) * 256 + b[Len(b)]

\* 256 ^ n
RECURSIVE Pow256(_)
Pow256(n) == IF n = 0 THEN 1 ELSE 256 * Pow256(n - 1)

\* int.from_bytes(b, 'big', signed=True)
SignedBigEndian(b) ==
    IF b # <<>> /\ b[1] >= 128 THEN BigEndian(b) - Pow256(Len(b)) ELSE BigEndian(b)

\* bytes.decode('utf-8', errors='replace') for the bytes of the model: an ASCII
\* byte is its character, any other byte becomes U+FFFD
Decode(b) == [i \in 1..Len(b) |-> IF b[i] < 128 THEN b[i] ELSE 65533]

\* EnhancedGOOSERawSniffer._parse_ber_length, Sniffer_Raw.py 630-655
\* a parser that takes the announced length octets to be there
OctetsAssumed(buf, pos, num_octets) == FALSE

\* line 648, pos being the position after the first length byte
OctetsMissing(buf, pos, num_octets) == pos + num_octets > Len(buf)

parse_ber_length(buf, pos) ==
    IF pos >= Len(buf) THEN [pos |-> pos, length |-> 0, idx |-> {}]
    ELSE LET first_byte == ByteAt(buf, pos)
             num_octets == first_byte % 128
         IN IF first_byte < 128
            THEN [pos |-> pos + 1, length |-> first_byte, idx |-> {<<pos, Len(buf)>>}]
            ELSE IF num_octets = 0 \/ OctetsMissing(buf, pos + 1, num_octets)
            THEN [pos |-> pos + 1, length |-> 0, idx |-> {<<pos, Len(buf)>>}]
            ELSE [pos |-> pos + 1 + num_octets,
                  length |-> BigEndian(Slice(buf, pos + 1, pos + 1 + num_octets)),
                  idx |-> {<<pos + i, Len(buf)>> : i \in 0..num_octets}]

\* a parser that takes every TLV as fitting
AlwaysFits(buf, pos, length) == TRUE

\* Sniffer_Raw.py 675 / 761 / 530: the TLV's value lies inside the buffer
Fits(buf, pos, length) == pos + length <= Len(buf)

\* EnhancedGOOSERawSniffer._parse_timestamp_enhanced, Sniffer_Raw.py 721-741;
\* -1 stands for the current time
parse_timestamp_enhanced(b) ==
    IF Len(b) >= 8
    THEN BigEndian(Slice(b, 0, 4)) * 1000 + (BigEndian(Slice(b, 4, 7)) * 1000) \div 16777216
    ELSE IF Len(b) >= 4 THEN BigEndian(Slice(b, 0, 4)) * 1000
    ELSE -1

\* one entry of the values list
Value(type, bytes, num) == [type |-> type, bytes |-> bytes, num |-> num]

\* an unknown type stored without its tag
UntaggedHex(tag, content) == Value("Type", content, 0)

\* line 815: the value of a TLV whose tag is none of the known types
UnknownType(tag, content) == Value("Type", content, tag)

\* Sniffer_Raw.py 764-818: the value of one TLV of allData, by its MMS type tag
AllDataValue(buf, tag, pos, length) ==
    LET size == Len(buf)
        whole == Slice(buf, pos, pos + length)
        all == {<<pos, pos + length, size>>}
        at_pos == {<<pos, size>>}
        failed == Value("ParseError", whole, 0)
    IN CASE tag = 131 ->
              IF length = 0 THEN [v |-> Value("boolean", <<>>, 0), idx |-> {}, sl |-> {}]
              ELSE IF ByteAt(buf, pos) = -1 THEN [v |-> failed, idx |-> at_pos, sl |-> all]
              ELSE [v |-> Value("boolean", <<>>, IF ByteAt(buf, pos) # 0 THEN 1 ELSE 0),
                    idx |-> at_pos, sl |-> {}]
         [] tag = 132 ->
              IF length <= 1 THEN [v |-> Value("bit-string", <<>>, 0), idx |-> {}, sl |-> {}]
              ELSE IF ByteAt(buf, pos) = -1 THEN [v |-> failed, idx |-> at_pos, sl |-> all]
              ELSE [v |-> Value("bit-string", <<>>,
                                BigEndian(Slice(buf, pos + 1, pos + length))),
                    idx |-> at_pos, sl |-> {<<pos + 1, pos + length, size>>}]
         [] tag = 133 ->
              [v |-> IF length <= 8 THEN Value("integer", <<>>, SignedBigEndian(whole))
                     ELSE Value("BigInt", whole, 0),
               idx |-> {}, sl |-> all]
         [] tag = 134 ->
              [v |-> IF length <= 8 THEN Value("unsigned", <<>>, BigEndian(whole))
                     ELSE Value("BigUInt", whole, 0),
               idx |-> {}, sl |-> all]
         [] tag = 135 ->
              [v |-> IF length = 4 THEN Value("float", whole, 0)
                     ELSE IF length = 8 THEN Value("double", whole, 0)
                     ELSE Value("Float", whole, 0),
               idx |-> {}, sl |-> all]
         [] tag = 137 -> [v |-> Value("octet-string", whole, 0), idx |-> {}, sl |-> all]
         [] tag = 138 -> [v |-> Value("visible-string", Decode(whole), 0),
                          idx |-> {}, sl |-> all]
         [] tag = 140 ->
              IF length = 4
              THEN [v |-> Value("BinTime", <<>>, BigEndian(whole)), idx |-> {}, sl |-> all]
              ELSE IF length = 6
              THEN [v |-> Value("BinTime", <<BigEndian(Slice(buf, pos, pos + 2))>>,
                                BigEndian(Slice(buf, pos + 2, pos + 6))),
                    idx |-> {},
                    sl |-> {<<pos, pos + 2, size>>, <<pos + 2, pos + 6, size>>}]
              ELSE [v |-> Value("BinTime", whole, 0), idx |-> {}, sl |-> all]
         [] tag = 145 ->
              [v |-> Value("utc-time", <<>>, parse_timestamp_enhanced(whole)),
               idx |-> {}, sl |-> all]
         [] OTHER -> [v |-> UnknownType(tag, whole), idx |-> {}, sl |-> all]

\* Sniffer_Raw.py 749-820: the loop of _parse_all_data_enhanced from pos on
RECURSIVE AllDataFrom(_, _, _, _, _)
AllDataFrom(buf, pos, values, idx, sl) ==
    IF ~(pos < Len(buf) - 1) THEN [values |-> values, idx |-> idx, sl |-> sl]
    ELSE LET tag == ByteAt(buf, pos)
             len_ == parse_ber_length(buf, pos + 1)
             read == idx \cup {<<pos, Len(buf)>>} \cup len_.idx
         IN IF ~Fits(buf, len_.pos, len_.length)
            THEN [values |-> values, idx |-> read, sl |-> sl]
            ELSE LET one == AllDataValue(buf, tag, len_.pos, len_.length)
                 IN AllDataFrom(buf, len_.pos + len_.length, Append(values, one.v),
                                read \cup one.idx, sl \cup one.sl)

\* EnhancedGOOSERawSniffer._parse_all_data_enhanced, Sniffer_Raw.py 743-826
parse_all_data_enhanced(buf) == AllDataFrom(buf, 0, <<>>, {}, {})

\* dict.update: the entries of upd replace those of d
Update(d, upd) == upd @@ d

\* Sniffer_Raw.py 679-711: the entry one TLV of the GOOSE PDU adds to result,
\* by its context tag; an exception inside leaves result as it is
PduField(buf, tag, pos, length) ==
    LET size == Len(buf)
        whole == Slice(buf, pos, pos + length)
        all == {<<pos, pos + length, size>>}
        at_pos == {<<pos, size>>}
        text(key) == [upd |-> key :> Decode(whole), idx |-> {}, sl |-> all]
        number(key) == IF length <= 8
                       THEN [upd |-> key :> BigEndian(whole), idx |-> {}, sl |-> all]
                       ELSE [upd |-> EmptyDict, idx |-> {}, sl |-> {}]
        flag(key) == IF length = 0 THEN [upd |-> key :> FALSE, idx |-> {}, sl |-> {}]
                     ELSE IF ByteAt(buf, pos) = -1
                     THEN [upd |-> EmptyDict, idx |-> at_pos, sl |-> {}]
                     ELSE [upd |-> key :> (ByteAt(buf, pos) # 0), idx |-> at_pos, sl |-> {}]
    IN CASE tag = 128 -> text("goCbRef")
         [] tag = 129 -> number("timeAllowedToLive")
         [] tag = 130 -> text("dataSet")
         [] tag = 131 -> text("goID")
         [] tag = 132 -> [upd |-> "timestamp" :> parse_timestamp_enhanced(whole),
                          idx |-> {}, sl |-> all]
         [] tag = 133 -> number("stNum")
         [] tag = 134 -> number("sqNum")
         [] tag = 135 -> flag("test")
         [] tag = 136 -> number("confRev")
         [] tag = 137 -> flag("ndsCom")
         [] tag = 138 -> number("numDatSetEntries")
         [] tag = 171 ->
              LET inner == parse_all_data_enhanced(whole)
              IN [upd |-> "values" :> inner.values, idx |-> inner.idx,
                  sl |-> all \cup inner.sl]
         [] OTHER -> [upd |-> EmptyDict, idx |-> {}, sl |-> {}]

\* Sniffer_Raw.py 663-713: the loop of _parse_goose_pdu_enhanced from pos on
RECURSIVE GoosePduFrom(_, _, _, _, _)
GoosePduFrom(buf, pos, result, idx, sl) ==
    IF ~(pos < Len(buf) - 1) THEN [result |-> result, idx |-> idx, sl |-> sl]
    ELSE LET tag == ByteAt(buf, pos)
             len_ == parse_ber_length(buf, pos + 1)
             read == idx \cup {<<pos, Len(buf)>>} \cup len_.idx
         IN IF ~Fits(buf, len_.pos, len_.length)
            THEN [result |-> result, idx |-> read, sl |-> sl]
            ELSE LET one == PduField(buf, tag, len_.pos, len_.length)
                 IN GoosePduFrom(buf, len_.pos + len_.length, Update(result, one.upd),
                                 read \cup one.idx, sl \cup one.sl)

\* EnhancedGOOSERawSniffer._parse_goose_pdu_enhanced, Sniffer_Raw.py 657-719
parse_goose_pdu_enhanced(buf) == GoosePduFrom(buf, 0, EmptyDict, {}, {})

\* dict.setdefault(key, v)
SetDefault(d, key, v) == IF key \in DOMAIN d THEN d ELSE (key :> v) @@ d

\* "key not in d or not d[key]" for the text fields
Missing(d, key) == key \notin DOMAIN d \/ d[key] = <<>>

\* EnhancedGOOSERawSniffer._apply_intelligent_defaults, Sniffer_Raw.py 570-592
apply_intelligent_defaults(goose_info) ==
    LET app_id == IF "appId" \in DOMAIN goose_info THEN goose_info["appId"] ELSE 0
        d1 == IF Missing(goose_info, "goID")
              THEN Update(goose_info, "goID" :> <<"GOOSE_", app_id>>) ELSE goose_info
        d2 == IF Missing(d1, "goCbRef")
              THEN Update(d1, "goCbRef" :> <<d1["goID"], "/LLN0$GO">>) ELSE d1
        d3 == IF Missing(d2, "dataSet")
              THEN Update(d2, "dataSet" :> <<d2["goID"], "/LLN0$DS">>) ELSE d2
    IN SetDefault(SetDefault(SetDefault(SetDefault(SetDefault(SetDefault(SetDefault(d3,
         "stNum", 1), "sqNum", 0), "test", FALSE), "ndsCom", FALSE), "confRev", 1),
         "timeAllowedToLive", 10000), "values", <<>>)

\* EnhancedGOOSERawSniffer._validate_goose_data, Sniffer_Raw.py 594-607
validate_goose_data(goose_info) ==
    /\ {"src_mac", "dst_mac", "appId", "goID", "goCbRef", "dataSet"} \subseteq DOMAIN goose_info
    /\ 0 <= goose_info["appId"] /\ goose_info["appId"] <= 65535

\* EnhancedGOOSERawSniffer._create_fallback_goose_data, Sniffer_Raw.py 609-628
create_fallback_goose_data(partial_info) ==
    LET app_id == IF "appId" \in DOMAIN partial_info THEN partial_info["appId"] ELSE 0
        field(key, v) == IF key \in DOMAIN partial_info THEN partial_info[key] ELSE v
    IN ("src_mac" :> field("src_mac", Mac("00:00:00:00:00:00", FALSE))) @@
       ("dst_mac" :> field("dst_mac", Mac("01:0C:CD:01:00:00", TRUE))) @@
       ("timestamp" :> field("timestamp", -1)) @@ ("appId" :> app_id) @@
       ("goID" :> <<"Fallback_", app_id>>) @@
       ("goCbRef" :> <<"Fallback_", app_id, "/LLN0$GO">>) @@
       ("dataSet" :> <<"Fallback_", app_id, "/LLN0$DS">>) @@
       ("stNum" :> 1) @@ ("sqNum" :> 0) @@ ("test" :> FALSE) @@ ("ndsCom" :> FALSE) @@
       ("confRev" :> 1) @@ ("timeAllowedToLive" :> 10000) @@ ("values" :> <<>>)

\* what a call returned: a dict, None, or an exception that left the call
Dict(d) == [kind |-> "dict", info |-> d]

\* a parser that gives up on a frame whose header is cut short
ReturnedIfComplete(valid, goose_info) ==
    IF valid /\ "reserved" \in DOMAIN goose_info THEN Dict(goose_info)
    ELSE [kind |-> "None", info |-> EmptyDict]

\* Sniffer_Raw.py 540-545: the validated dict, or the fallback dict
Returned(valid, goose_info) ==
    IF valid THEN Dict(goose_info) ELSE Dict(create_fallback_goose_data(goose_info))

\* EnhancedGOOSERawSniffer.parse_goose_enhanced, Sniffer_Raw.py 493-568.  No
\* statement of the try block raises on any input (every struct.unpack and
\* index is guarded, slices are cut at the end), so the handler of lines
\* 547-568 takes no part.
parse_goose_enhanced(buf) ==
    LET size == Len(buf)
        start == ("src_mac" :> Mac("A", FALSE)) @@ ("dst_mac" :> Mac("M", FALSE)) @@
                 ("timestamp" :> -1) @@ ("raw_data_length" :> size)
        i1 == IF size >= 2 THEN Update(start, "appId" :> BigEndian(Slice(buf, 0, 2)))
              ELSE Update(start, "appId" :> 0)
        p1 == IF size >= 2 THEN 2 ELSE 0
        has_length == size >= p1 + 2
        i2 == IF has_length
              THEN Update(i1, "pdu_length" :> BigEndian(Slice(buf, p1, p1 + 2))) ELSE i1
        p2 == IF has_length THEN p1 + 2 ELSE p1
        has_reserved == size >= p2 + 4
        i3 == IF has_reserved THEN Update(i2, "reserved" :> Slice(buf, p2, p2 + 4)) ELSE i2
        p3 == IF has_reserved THEN p2 + 4 ELSE p2
        is_pdu == size > p3 /\ ByteAt(buf, p3) = 97
        len_ == parse_ber_length(buf, p3 + 1)
        found == is_pdu /\ Fits(buf, len_.pos, len_.length)
        content == parse_goose_pdu_enhanced(Slice(buf, len_.pos, len_.pos + len_.length))
        i4 == IF found THEN Update(i3, content.result) ELSE i3
        goose_info == apply_intelligent_defaults(i4)
    IN [ret |-> Returned(validate_goose_data(goose_info), goose_info),
        idx |-> (IF size > p3 THEN {<<p3, size>>} ELSE {})
                \cup (IF is_pdu THEN len_.idx ELSE {})
                \cup (IF found THEN content.idx ELSE {}),
        sl |-> (IF size >= 2 THEN {<<0, 2, size>>} ELSE {})
               \cup (IF has_length THEN {<<p1, p1 + 2, size>>} ELSE {})
               \cup (IF has_reserved THEN {<<p2, p2 + 4, size>>} ELSE {})
               \cup (IF found THEN {<<len_.pos, len_.pos + len_.length, size>>}
                                   \cup content.sl ELSE {})]

\* GOOSECaptureThread.__init__, Sniffer_Page.py 490-503, without the filters
InitCaptureThread ==
    /\ last_messages = EmptyDict
    /\ message_count = 0
    /\ hist = <<>>
    /\ out = [msg |-> NoMessage, is_retransmission |-> FALSE, emitted |-> FALSE,
              filter_result |-> "not_called"]

\* ------------- capture sessions: GOOSECaptureThread.run / cleanup / stop and
\* ------------- EnhancedGOOSERawSniffer.start / stop (promiscuous mode)
\* Each sniffer window (process) has at most one capture session at a time: a
\* GOOSECaptureThread with the sniffer it creates.  The kernel's promiscuous
\* flag is shared by every session of the host.  One call of
\* _set_promiscuous_mode is one step.
Sessions == 1..MaxSessions

\* _get_interface_list: the interfaces that "any" stands for
Ifaces == 1..NumIfaces

\* GOOSECaptureThread.__init__ and EnhancedGOOSERawSniffer.__init__; pc is the
\* position of the capture thread, caller the position of the GUI thread inside
\* GOOSECaptureThread.stop, recorded the value each interface had when the
\* session first touched it, socket_promisc whether the socket has joined an
\* interface with PACKET_MR_PROMISC
IdleSession ==
    [pc |-> "none", i |-> 0, raw_sniffer |-> FALSE, promiscuous_interfaces |-> EmptyDict,
     socket |-> "none", socket_promisc |-> FALSE, running |-> FALSE,
     thread_running |-> FALSE,
     stop_event |-> FALSE, cleanup_done |-> FALSE, start_ret |-> "none",
     error |-> FALSE, caller |-> "idle", recorded |-> EmptyDict]

\* no capture thread has been created
NoSession ==
    /\ sn = [s \in Sessions |-> IdleSession]
    /\ promisc = [i \in Ifaces |-> FALSE]
    /\ cmd_ok = TRUE

\* QThread.isRunning
isRunning(s) == sn[s].pc \notin {"none", "finished", "killed"}

\* one step of session s: its record becomes r, the interface flags become flags
SessionStep(s, r, flags) ==
    /\ sn' = [sn EXCEPT ![s] = r]
    /\ promisc' = flags
    /\ UNCHANGED <<cmd_ok, pubvars, last_messages, filters, show_retransmissions,
                   message_count, hist, out, rawvars>>

\* _set_promiscuous_mode: the original state is saved the first time, then the
\* command is run; the flag changes when the command succeeds
set_promiscuous_mode(saved, flags, interface, enable) ==
    [promiscuous_interfaces |->
         IF interface \in DOMAIN saved THEN saved
         ELSE saved @@ (interface :> flags[interface]),
     flags |-> IF cmd_ok THEN [flags EXCEPT ![interface] = enable] ELSE flags]

\* an interface that is promiscuous whatever stop() found recorded
RestoreAlways(original_state) == TRUE

\* stop(): 'if not original_state'
ShouldRestore(original_state) == ~original_state

\* SnifferPage.start_capture: the window has no capture thread (start_btn is
\* enabled only before the first start and after stop_thread has set
\* capture_thread = None); a new GOOSECaptureThread is created and started
StartCapture(s) ==
    /\ sn[s].pc = "none" \/ sn[s].caller = "returned"
    /\ SessionStep(s, [IdleSession EXCEPT !.pc = "run"], promisc)

\* run(): the event and the cleanup flag are reset
Run(s) ==
    /\ sn[s].pc = "run"
    /\ SessionStep(s, [sn[s] EXCEPT !.pc = "create", !.stop_event = FALSE,
                                    !.cleanup_done = FALSE], promisc)

\* run_raw_socket_mode creates the sniffer and calls start()
RunRawSocketMode(s) ==
    /\ sn[s].pc = "create"
    /\ SessionStep(s, [sn[s] EXCEPT !.pc = "enable", !.i = 1, !.raw_sniffer = TRUE,
                                    !.promiscuous_interfaces = EmptyDict,
                                    !.socket = "none", !.running = FALSE], promisc)

\* start(): promiscuous mode is enabled on the next interface of the list
StartPromiscuous(s) ==
    /\ sn[s].pc = "enable"
    /\ LET r == set_promiscuous_mode(sn[s].promiscuous_interfaces, promisc, sn[s].i, TRUE)
       IN SessionStep(s, [sn[s] EXCEPT
                              !.promiscuous_interfaces = r.promiscuous_interfaces,
                              !.recorded = r.promiscuous_interfaces,
                              !.i = sn[s].i + 1,
                              !.pc = IF sn[s].i = NumIfaces THEN "socket" ELSE "enable"],
                      r.flags)

\* start(): the raw socket is created; when no command enabled promiscuous
\* mode, _enable_socket_promiscuous_mode tries it on the socket, where every
\* failure is swallowed (Sniffer_Raw.py 264-270, 326-341); start() returns True
\* and the capture loop of run_raw_socket_mode begins
StartSucceeds(s) ==
    /\ sn[s].pc = "socket"
    /\ \E joined \in IF cmd_ok THEN {FALSE} ELSE BOOLEAN :
         SessionStep(s, [sn[s] EXCEPT !.pc = "loop", !.socket = "open",
                                      !.socket_promisc = joined, !.running = TRUE,
                                      !.start_ret = "true", !.thread_running = TRUE],
                     promisc)

\* start(): socket.socket raises, start() returns False and run_raw_socket_mode
\* returns
StartFails(s) ==
    /\ sn[s].pc = "socket"
    /\ SessionStep(s, [sn[s] EXCEPT !.pc = "cleanup", !.start_ret = "false"], promisc)

\* the capture loop finds running cleared or the event set
CaptureLoopExit(s) ==
    /\ sn[s].pc = "loop"
    /\ ~sn[s].thread_running \/ sn[s].stop_event
    /\ SessionStep(s, [sn[s] EXCEPT !.pc = "cleanup"], promisc)

\* the capture loop ends through an exception
CaptureLoopError(s) ==
    /\ sn[s].pc = "loop"
    /\ SessionStep(s, [sn[s] EXCEPT !.pc = "cleanup", !.error = TRUE], promisc)

\* run(): finally: cleanup(), up to the call of raw_sniffer.stop()
Cleanup(s) ==
    /\ sn[s].pc = "cleanup"
    /\ SessionStep(s,
                   IF sn[s].cleanup_done THEN [sn[s] EXCEPT !.pc = "finished"]
                   ELSE IF sn[s].raw_sniffer
                        THEN [sn[s] EXCEPT !.cleanup_done = TRUE, !.running = FALSE,
                                           !.i = 1, !.pc = "restore"]
                        ELSE [sn[s] EXCEPT !.cleanup_done = TRUE, !.pc = "finished"],
                   promisc)

\* stop(): the loop over promiscuous_interfaces.items(), one interface
StopRestore(s) ==
    /\ sn[s].pc = "restore"
    /\ LET saved == sn[s].promiscuous_interfaces
           iface == sn[s].i
           r == IF iface \in DOMAIN saved /\ ShouldRestore(saved[iface])
                THEN set_promiscuous_mode(saved, promisc, iface, FALSE)
                ELSE [promiscuous_interfaces |-> saved, flags |-> promisc]
       IN SessionStep(s, [sn[s] EXCEPT
                              !.promiscuous_interfaces = r.promiscuous_interfaces,
                              !.i = iface + 1,
                              !.pc = IF iface = NumIfaces THEN "close" ELSE "restore"],
                      r.flags)

\* stop(): the dict is cleared and the socket closed; cleanup() drops the
\* sniffer and run() returns
StopClose(s) ==
    /\ sn[s].pc = "close"
    /\ SessionStep(s, [sn[s] EXCEPT !.promiscuous_interfaces = EmptyDict,
                                    !.socket = "none", !.socket_promisc = FALSE,
                                    !.raw_sniffer = FALSE,
                                    !.pc = "finished"], promisc)

\* GOOSECaptureThread.stop(), up to wait(3000)
StopCapture(s) ==
    /\ sn[s].pc # "none"
    /\ sn[s].caller = "idle"
    /\ SessionStep(s, [sn[s] EXCEPT
                           !.thread_running = FALSE, !.stop_event = TRUE,
                           !.running = IF sn[s].raw_sniffer THEN FALSE ELSE sn[s].running,
                           !.caller = IF isRunning(s) THEN "wait" ELSE "returned"],
                   promisc)

\* stop(): wait(3000) returns True, the thread has finished
StopWaitOver(s) ==
    /\ sn[s].caller = "wait"
    /\ ~isRunning(s)
    /\ SessionStep(s, [sn[s] EXCEPT !.caller = "returned"], promisc)

\* stop(): wait(3000) returns False and the thread is terminated
StopTerminate(s) ==
    /\ sn[s].caller = "wait"
    /\ isRunning(s)
    /\ SessionStep(s, [sn[s] EXCEPT !.caller = "terminated"], promisc)

\* QThread.terminate() takes effect: the thread executes nothing more
ThreadKilled(s) ==
    /\ sn[s].caller = "terminated"
    /\ isRunning(s)
    /\ SessionStep(s, [sn[s] EXCEPT !.pc = "killed"], promisc)

\* stop(): wait(1000) after terminate() returns and stop() returns
StopTerminatedOver(s) ==
    /\ sn[s].caller = "terminated"
    /\ ~isRunning(s)
    /\ SessionStep(s, [sn[s] EXCEPT !.caller = "returned"], promisc)

\* no parser has been applied
NotParsed == [fn |-> "none", ret |-> [kind |-> "none", info |-> EmptyDict],
              idx |-> {}, sl |-> {}]

\* EnhancedGOOSERawSniffer.__init__, Sniffer_Raw.py 36-43
NotStarted == [running |-> FALSE, packet_count |-> 0, error_count |-> 0,
               parser_calls |-> 0, callback_calls |-> 0]

\* the sniffer has received nothing
InitSniffer ==
    /\ data = <<>>
    /\ parsed = NotParsed
    /\ rs = NotStarted
    /\ NoSession

\* GOOSECaptureThread.__init__, Sniffer_Page.py 490-503
InitCapture ==
    /\ InitCaptureThread
    /\ InitSniffer
    /\ filters = <<>>
    /\ show_retransmissions = TRUE

\* one BER element with a short-form length
TLV(tag, value) == <<tag, Len(value)>> \o value

\* the allData of the frames: a boolean, a bit-string and an integer
AllDataBytes == TLV(131, <<1>>) \o TLV(132, <<0, 3>>) \o TLV(133, <<255>>)

\* the fields of a GOOSE PDU in the order of their tags, Sniffer_Raw.py 680-708
PduBytes ==
    TLV(128, <<97>>) \o TLV(129, <<7, 208>>) \o TLV(130, <<98>>) \o TLV(131, <<71>>) \o
    TLV(132, <<0, 0, 0, 1, 0, 0, 64, 0>>) \o TLV(133, <<5>>) \o TLV(134, <<1>>) \o
    TLV(135, <<0>>) \o TLV(136, <<1>>) \o TLV(137, <<0>>) \o TLV(138, <<3>>) \o
    TLV(171, AllDataBytes)

\* APPID, length and the four reserved bytes, Sniffer_Raw.py 505-522
Header(length) == <<0, 16, 0, length, 0, 0, 0, 0>>

\* two valid frames: the PDU length in short form and in long form
ValidFrames ==
    {Header(Len(PduBytes) + 10) \o <<97, Len(PduBytes)>> \o PduBytes,
     Header(Len(PduBytes) + 11) \o <<97, 129, Len(PduBytes)>> \o PduBytes}

\* the prefixes of the valid frames that miss at least one byte
Truncations == UNION {{SubSeq(f, 1, n) : n \in 0..(Len(f) - 1)} : f \in ValidFrames}

\* byte values that are lengths, long-form length markers and tags
ByteValues == {0, 1, 2, 128, 129, 131, 135, 171}

\* every byte sequence of at most MaxBuf such bytes
Buffers == UNION {[1..n -> ByteValues] : n \in 0..MaxBuf}

\* what the sniffer is given: cut frames, whole frames, arbitrary bytes, and
\* arbitrary bytes in the place of a frame's PDU
InitParse ==
    /\ InitPublisher
    /\ InitCaptureThread
    /\ filters = <<>>
    /\ show_retransmissions = TRUE
    /\ data \in Truncations \cup ValidFrames \cup Buffers
                \cup {Header(Len(b) + 9) \o <<97>> \o b : b \in Buffers}
    /\ parsed = NotParsed
    /\ rs = NotStarted
    /\ NoSession

\* _process_packet hands the frame to parse_goose_enhanced, Sniffer_Raw.py 493-568
ParseGooseEnhanced ==
    /\ parsed.fn = "none"
    /\ parsed' = [fn |-> "parse_goose_enhanced"] @@ parse_goose_enhanced(data)
    /\ UNCHANGED <<data, rs, last_messages, filters, show_retransmissions, message_count,
                   hist, out, pubvars, sesvars>>

\* _parse_goose_pdu_enhanced applied to the bytes, Sniffer_Raw.py 657-719
ParseGoosePdu ==
    /\ parsed.fn = "none"
    /\ data \in Buffers
    /\ LET r == parse_goose_pdu_enhanced(data)
       IN parsed' = [fn |-> "parse_goose_pdu_enhanced", ret |-> Dict(r.result),
                     idx |-> r.idx, sl |-> r.sl]
    /\ UNCHANGED <<data, rs, last_messages, filters, show_retransmissions, message_count,
                   hist, out, pubvars, sesvars>>

\* _parse_all_data_enhanced applied to the bytes, Sniffer_Raw.py 743-826
ParseAllData ==
    /\ parsed.fn = "none"
    /\ data \in Buffers
    /\ LET r == parse_all_data_enhanced(data)
       IN parsed' = [fn |-> "parse_all_data_enhanced",
                     ret |-> [kind |-> "list", info |-> r.values],
                     idx |-> r.idx, sl |-> r.sl]
    /\ UNCHANGED <<data, rs, last_messages, filters, show_retransmissions, message_count,
                   hist, out, pubvars, sesvars>>

\* _parse_ber_length applied at a position of the bytes, Sniffer_Raw.py 630-655
ParseBerLength ==
    /\ parsed.fn = "none"
    /\ data \in Buffers
    /\ \E pos \in 0..Len(data) :
         LET r == parse_ber_length(data, pos)
         IN parsed' = [fn |-> "parse_ber_length",
                       ret |-> [kind |-> "tuple", info |-> <<pos, r.pos, r.length>>],
                       idx |-> r.idx, sl |-> {}]
    /\ UNCHANGED <<data, rs, last_messages, filters, show_retransmissions, message_count,
                   hist, out, pubvars, sesvars>>

NextParse ==
    \/ ParseGooseEnhanced
    \/ ParseGoosePdu
    \/ ParseAllData
    \/ ParseBerLength

SpecParse == InitParse /\ [][NextParse]_vars

\* the neighbour table read by IPMACResolver.get_arp_table, Sniffer_Page.py
\* 55-93: one address is known, its MAC stored in lower case
arp_table == [ip \in {"10.0.0.1"} |-> Lower(Mac("B", TRUE))]

\* IPMACResolver.ip_to_mac, Sniffer_Page.py 96-99; Mac("", FALSE) stands for None
ip_to_mac(ip_address) ==
    IF ip_address \in DOMAIN arp_table THEN arp_table[ip_address] ELSE Mac("", FALSE)

\* int(text, 16) for a text starting with 0x, int(text) otherwise, Sniffer_Page.py
\* 453-456; -1 stands for the ValueError caught at line 458
ParseAppId(app_id_text) ==
    CASE app_id_text = "10" -> 10
      [] app_id_text = "0x10" -> 16
      [] OTHER -> -1

\* the texts a row of the filter table can hold
FilterRows == [ip : {"", "10.0.0.1", "10.0.0.9"},
               mac : {Mac("", FALSE), Mac("A", TRUE)},
               app_id : {"", "10", "0x10", "zz"}]

\* GOOSEFilterDialog.get_filters, Sniffer_Page.py 424-459: the dict of one row
RowDict(row) ==
    LET resolved_mac == ip_to_mac(row.ip)
        ip_part == IF row.ip = "" THEN EmptyDict
                   ELSE ("ip" :> row.ip) @@
                        (IF resolved_mac # Mac("", FALSE)
                         THEN "resolved_mac" :> resolved_mac
                         ELSE "ip_unresolved" :> TRUE)
        mac_part == IF row.mac = Mac("", FALSE) THEN EmptyDict
                    ELSE "mac" :> Lower(row.mac)
        app_part == IF row.app_id = "" \/ ParseAppId(row.app_id) = -1 THEN EmptyDict
                    ELSE "app_id" :> ParseAppId(row.app_id)
    IN ip_part @@ mac_part @@ app_part

\* Sniffer_Page.py 425-457: has_valid_criteria of one row
HasValidCriteria(row) ==
    \/ row.ip # "" /\ ip_to_mac(row.ip) # Mac("", FALSE)
    \/ row.mac # Mac("", FALSE)
    \/ row.app_id # "" /\ ParseAppId(row.app_id) # -1

\* Sniffer_Page.py 461-463: is the row's dict appended to the list?
RowKept(row) ==
    /\ RowDict(row) # EmptyDict
    /\ HasValidCriteria(row) \/ "ip_unresolved" \in DOMAIN RowDict(row)

\* GOOSEFilterDialog.get_filters, Sniffer_Page.py 411-479; <<>> stands for None
RECURSIVE RowsFrom(_, _)
RowsFrom(rows, i) ==
    IF i > Len(rows) THEN <<>>
    ELSE IF RowKept(rows[i]) THEN <<RowDict(rows[i])>> \o RowsFrom(rows, i + 1)
    ELSE RowsFrom(rows, i + 1)

get_filters(checked, rows) == IF ~checked THEN <<>> ELSE RowsFrom(rows, 1)

\* the filter tables of at most MaxRows rows
FilterTables == UNION {[1..n -> FilterRows] : n \in 0..MaxRows}

\* SnifferPage.start_capture, Sniffer_Page.py 941-942: the thread starts with
\* the filters the dialog returned
InitFiltered ==
    /\ InitPublisher
    /\ InitCaptureThread
    /\ InitSniffer
    /\ \E checked \in BOOLEAN, rows \in FilterTables : filters = get_filters(checked, rows)
    /\ show_retransmissions = TRUE

\* dict.get('ip_unresolved', False)
GetUnresolved(f) == IF "ip_unresolved" \in DOMAIN f THEN f["ip_unresolved"] ELSE FALSE

\* a match that requires every criterion of the filter dict (AND logic)
FilterMatchesAll(f, src_mac, dst_mac, app_id) ==
    /\ "app_id" \in DOMAIN f => app_id = f["app_id"]
    /\ "mac" \in DOMAIN f => src_mac = Lower(f["mac"]) \/ dst_mac = Lower(f["mac"])
    /\ "resolved_mac" \in DOMAIN f =>
          src_mac = Lower(f["resolved_mac"]) \/ dst_mac = Lower(f["resolved_mac"])

\* Sniffer_Page.py 672-694: does one filter dict that is not skipped match?
FilterMatches(f, src_mac, dst_mac, app_id) ==
    LET m1 == "app_id" \in DOMAIN f /\ app_id = f["app_id"]
        m2 == IF "mac" \in DOMAIN f /\ ~m1
              THEN src_mac = Lower(f["mac"]) \/ dst_mac = Lower(f["mac"])
              ELSE m1
        m3 == IF "resolved_mac" \in DOMAIN f /\ ~m2
              THEN src_mac = Lower(f["resolved_mac"]) \/ dst_mac = Lower(f["resolved_mac"])
              ELSE m2
    IN m3

\* a loop that skips no filter
NeverSkipped(f) == FALSE

\* Sniffer_Page.py 668-670: filters with an unresolved IP are skipped
Skipped(f) == GetUnresolved(f)

\* Sniffer_Page.py 664-697: the loop over self.filters from index i on
RECURSIVE FilterLoop(_, _, _, _, _)
FilterLoop(fs, i, src_mac, dst_mac, app_id) ==
    IF i > Len(fs) THEN FALSE
    ELSE IF Skipped(fs[i]) THEN FilterLoop(fs, i + 1, src_mac, dst_mac, app_id)
    ELSE IF FilterMatches(fs[i], src_mac, dst_mac, app_id) THEN TRUE
    ELSE FilterLoop(fs, i + 1, src_mac, dst_mac, app_id)

\* GOOSECaptureThread.apply_enhanced_filters, Sniffer_Page.py 654-697
apply_enhanced_filters(fs, goose_data) ==
    IF fs = <<>> THEN TRUE
    ELSE FilterLoop(fs, 1, Lower(goose_data.src_mac), Lower(goose_data.dst_mac),
                    goose_data.appId)

\* a check that compares stNum only
SameStNum(lm, go_id, st_num_, sq_num_) ==
    IF go_id \in DOMAIN lm THEN st_num_ = lm[go_id].stNum ELSE FALSE

\* Sniffer_Page.py 604-608: the retransmission check against last_messages
\* a classifier that compares with the stored entry of any goID
AnyGoId(lm, go_id, st_num_, sq_num_) ==
    \E g \in DOMAIN lm : st_num_ = lm[g].stNum /\ sq_num_ > 0

IsRetransmission(lm, go_id, st_num_, sq_num_) ==
    IF go_id \in DOMAIN lm
    THEN st_num_ = lm[go_id].stNum /\ sq_num_ > 0
    ELSE FALSE

\* a map that keeps the entry of a message's stNum until the stNum has been
\* seen twice in a row: a message is stored only if it is the first of its
\* goID or a retransmission
StoreConfirmed(lm, go_id, st_num_, sq_num_) ==
    [g \in DOMAIN lm \cup {go_id} |->
        IF g = go_id /\ (g \notin DOMAIN lm \/ lm[g].stNum = st_num_)
        THEN [stNum |-> st_num_, sqNum |-> sq_num_] ELSE lm[g]]

\* Sniffer_Page.py 610-613: the entry of go_id is overwritten
StoreEntry(lm, go_id, st_num_, sq_num_) ==
    [g \in DOMAIN lm \cup {go_id} |->
        IF g = go_id THEN [stNum |-> st_num_, sqNum |-> sq_num_] ELSE lm[g]]

\* a handler that stores the entry of the messages it forwards only
StoreForwarded(lm, goose_data, emitted) ==
    IF emitted THEN StoreEntry(lm, goose_data.goID, goose_data.stNum, goose_data.sqNum)
    ELSE lm

\* Sniffer_Page.py 610-613 come before the returns of lines 616-621: the entry
\* is stored whether or not the message is forwarded
StoreFirst(lm, goose_data, emitted) ==
    StoreEntry(lm, goose_data.goID, goose_data.stNum, goose_data.sqNum)

\* GOOSECaptureThread.handle_goose_message, Sniffer_Page.py 593-652 (the stop
\* event is not set): classify, store, then hide / filter / emit
handle_goose_message(goose_data) ==
    LET go_id == goose_data.goID
        is_retransmission ==
            IsRetransmission(last_messages, go_id, goose_data.stNum, goose_data.sqNum)
        hidden == is_retransmission /\ ~show_retransmissions
        filtering == ~hidden /\ filters # <<>>
        dropped == filtering /\ ~apply_enhanced_filters(filters, goose_data)
        emitted == ~hidden /\ ~dropped
    IN /\ last_messages' = StoreFirst(last_messages, goose_data, emitted)
       /\ message_count' = IF emitted THEN message_count + 1 ELSE message_count
       /\ hist' = Append(hist, [goID |-> go_id, stNum |-> goose_data.stNum,
                                sqNum |-> goose_data.sqNum,
                                is_retransmission |-> is_retransmission])
       /\ out' = [msg |-> goose_data, is_retransmission |-> is_retransmission,
                  emitted |-> emitted,
                  filter_result |-> IF ~filtering THEN "not_called"
                                    ELSE IF dropped THEN "drop" ELSE "pass"]

\* handle_goose_message called with a message, nothing else happening
HandleGooseMessage(goose_data) ==
    /\ handle_goose_message(goose_data)
    /\ UNCHANGED <<filters, show_retransmissions, pubvars, rawvars, sesvars>>

\* GOOSECaptureThread.set_show_retransmissions, Sniffer_Page.py 513-515
SetShowRetransmissions ==
    /\ show_retransmissions' = ~show_retransmissions
    /\ UNCHANGED <<last_messages, filters, message_count, hist, out, pubvars, rawvars,
                   sesvars>>

\* --------------------------------------- the publisher with its threads
Init == InitPublisher /\ InitCapture

Next ==
    \/ Heartbeat
    \/ HeartbeatPublish
    \/ EditValue
    \/ PublishMessageSet
    \/ PublishMessagePublish
    \/ PwrStop
    \/ PwrEnsure(App)
    \/ ThreadClear(App)
    \/ ThreadStart(App)
    \/ StartCyclicPublish
    \/ StopCyclicPublish
    \/ OpDone
    \/ SetDataset(App)
    \/ StopRetransmission(App)
    \/ \E t \in Threads : Publish(t)
    \/ \E w \in Workers : Worker(w)

Spec == Init /\ [][Next]_vars

\* --------------------------- one caller: a sequence of calls, no threads
\* a single caller invokes publish(increase_stnum) and waits for its result
CallPublish ==
    /\ th[App].pc = "idle"
    /\ CanPublish
    /\ \E inc \in BOOLEAN :
         th' = [th EXCEPT ![App] = [Call(App, "p_enabled", "op_done") EXCEPT !.inc = inc]]
    /\ UNCHANGED <<st_num, sq_num, goose_enabled, dataset, dataset_values,
                   stop_event, thread, ui_values, last, edit_base, capvars, listvars>>

\* a single caller invokes set_dataset(values), values possibly empty
CallSetDataset ==
    /\ th[App].pc = "idle"
    /\ \E v \in 0..NumDatasets :
         th' = [th EXCEPT ![App] = [Call(App, "s_values", "op_done") EXCEPT !.val = v]]
    /\ UNCHANGED <<st_num, sq_num, goose_enabled, dataset, dataset_values,
                   stop_event, thread, ui_values, last, edit_base, capvars, listvars>>

\* With one caller publish never finds goose_enabled set and the dataset
\* missing, so the enable() call of line 744 is not among its steps.
NextSeq ==
    \/ CallPublish
    \/ CallSetDataset
    \/ OpDone
    \/ SetDataset(App)
    \/ PublishCheckEnabled(App)
    \/ PublishCheckDataset(App)
    \/ PublishRecheck(App)
    \/ PublishCount(App)
    \/ PublishStWrite(App)
    \/ PublishSqReset(App)
    \/ PublishSqWrite(App)
    \/ PublishSend(App)

SpecSeq == Init /\ [][NextSeq]_vars

\* ------------------- the capture sessions of one sniffer window, in turn
\* the host's interfaces are in any state and the command works or not
InitSession ==
    /\ InitPublisher
    /\ InitCaptureThread
    /\ data = <<>>
    /\ parsed = NotParsed
    /\ rs = NotStarted
    /\ filters = <<>>
    /\ show_retransmissions = TRUE
    /\ sn = [s \in Sessions |-> IdleSession]
    /\ promisc \in [Ifaces -> BOOLEAN]
    /\ cmd_ok \in BOOLEAN

\* the steps of the capture thread of session s and of the GUI thread in stop()
SessionSteps(s) ==
    \/ Run(s)
    \/ RunRawSocketMode(s)
    \/ StartPromiscuous(s)
    \/ StartSucceeds(s)
    \/ StartFails(s)
    \/ CaptureLoopExit(s)
    \/ CaptureLoopError(s)
    \/ Cleanup(s)
    \/ StopRestore(s)
    \/ StopClose(s)
    \/ StopCapture(s)
    \/ StopWaitOver(s)
    \/ StopTerminate(s)
    \/ ThreadKilled(s)
    \/ StopTerminatedOver(s)

NextSession == \E s \in {1} : StartCapture(s) \/ SessionSteps(s)

SpecSession == InitSession /\ [][NextSession]_vars

\* ------------------- sniffer windows of several processes on the same host
NextInstances == \E s \in Sessions : StartCapture(s) \/ SessionSteps(s)

SpecInstances == InitSession /\ [][NextInstances]_vars

\* ------------- one retransmission schedule, with retransmissions sent by
\* ------------- the application thread beside it
\* the publisher after set_dataset and enable: it has a dataset and is enabled
InitSchedule ==
    /\ st_num = 0
    /\ sq_num = 0
    /\ goose_enabled = TRUE
    /\ dataset = 1
    /\ dataset_values = 1
    /\ stop_event = FALSE
    /\ thread = 0
    /\ th = [t \in Threads |-> IF t = App THEN IdleApp ELSE NoThread]
    /\ ui_values = 1
    /\ last = <<0, 0>>
    /\ edit_base = 0
    /\ linked = <<>>
    /\ sent = NoPayload
    /\ pub = NoPublication
    /\ delivered = <<0, 0>>
    /\ gh = NoHandler
    /\ InitCapture

\* wrapper 785-794: publish_with_retransmission is called once, for a state
\* change; it begins with stop_retransmission
StartSchedule ==
    /\ th[App].pc = "idle"
    /\ thread = 0
    /\ th' = [th EXCEPT ![App] = [Call(App, "stop_chk", "pwr_ensure") EXCEPT !.mk = "retrans"]]
    /\ UNCHANGED <<st_num, sq_num, goose_enabled, dataset, dataset_values,
                   stop_event, thread, ui_values, last, edit_base, capvars, listvars>>

\* the application thread calls publish(increase_stnum=False)
CallRetransmit ==
    /\ th[App].pc = "idle"
    /\ CanPublish
    /\ th' = [th EXCEPT ![App] = [Call(App, "p_enabled", "op_done") EXCEPT !.inc = FALSE]]
    /\ UNCHANGED <<st_num, sq_num, goose_enabled, dataset, dataset_values,
                   stop_event, thread, ui_values, last, edit_base, capvars, listvars>>

\* one step of publish() by thread t when the dataset exists
PublishWithDataset(t) ==
    \/ PublishCheckEnabled(t)
    \/ PublishCheckDataset(t)
    \/ PublishRecheck(t)
    \/ PublishCount(t)
    \/ PublishStWrite(t)
    \/ PublishSqReset(t)
    \/ PublishSqWrite(t)
    \/ PublishSend(t)

\* one step of the retransmission worker outside publish()
RetransmissionWorker(w) ==
    \/ WorkerStart(w)
    \/ WorkerFirst(w)
    \/ WorkerWait(w)
    \/ WorkerNext(w)
    \/ WorkerSteadyCheck(w)
    \/ WorkerSteadyWait(w)

\* the worker thread takes a step: it is a thread of its own, its timed waits
\* elapse and its calls return
WorkerRuns == \E w \in Workers : RetransmissionWorker(w) \/ PublishWithDataset(w)

NextSchedule ==
    \/ StartSchedule
    \/ CallRetransmit
    \/ StopCheck(App)
    \/ PwrEnsure(App)
    \/ ThreadClear(App)
    \/ ThreadStart(App)
    \/ OpDone
    \/ PublishWithDataset(App)
    \/ WorkerRuns

SpecSchedule == InitSchedule /\ [][NextSchedule]_vars /\ WF_vars(WorkerRuns)

\* ------------------ GOOSEPublisher.destroy beside a retransmission schedule
\* wrapper 887-892 and 2010-2013: destroy() begins with stop_retransmission
Destroy ==
    /\ th[App].pc = "idle"
    /\ th' = [th EXCEPT ![App] = Call(App, "stop_chk", "d_values")]
    /\ UNCHANGED <<st_num, sq_num, goose_enabled, dataset, dataset_values,
                   stop_event, thread, ui_values, last, edit_base, capvars, listvars>>

\* line 898: self.dataset_values.clear()
DestroyValues ==
    /\ th[App].pc = "d_values"
    /\ dataset_values' = 0
    /\ th' = [th EXCEPT ![App].pc = "d_dataset", ![App].ret = "none"]
    /\ UNCHANGED <<st_num, sq_num, goose_enabled, dataset,
                   stop_event, thread, ui_values, last, edit_base, capvars, listvars>>

\* line 899: self.dataset = None
DestroyDataset ==
    /\ th[App].pc = "d_dataset"
    /\ dataset' = 0
    /\ th' = [th EXCEPT ![App].pc = "d_publisher"]
    /\ UNCHANGED <<st_num, sq_num, goose_enabled, dataset_values,
                   stop_event, thread, ui_values, last, edit_base, capvars, listvars>>

\* lines 902-907: GoosePublisher_destroy frees the publisher, the reference and
\* goose_enabled are cleared and destroy() returns; a publish() called from now
\* on returns False at its first checks
DestroyPublisher ==
    /\ th[App].pc = "d_publisher"
    /\ goose_enabled' = FALSE
    /\ th' = [th EXCEPT ![App].pc = "destroyed"]
    /\ UNCHANGED <<st_num, sq_num, dataset, dataset_values,
                   stop_event, thread, ui_values, last, edit_base, capvars, listvars>>

\* line 766 when destroy() has returned: the thread entered the transport call
\* with the publisher that GoosePublisher_destroy has freed since.  The call
\* uses freed memory; it can still put the message on the wire (here), or
\* fail (PublishSend with the dataset gone).
PublishSendFreed(t) ==
    /\ th[t].pc = "p_send"
    /\ th[App].pc = "destroyed"
    /\ th' = [th EXCEPT ![t] = Return(t, "ok")]
    /\ last' = <<st_num, sq_num>>
    /\ UNCHANGED <<st_num, sq_num, goose_enabled, dataset, dataset_values,
                   stop_event, thread, ui_values, edit_base, capvars, listvars>>

NextDestroy ==
    \/ StartSchedule
    \/ Destroy
    \/ StopCheck(App)
    \/ StopJoin(App)
    \/ DestroyValues
    \/ DestroyDataset
    \/ DestroyPublisher
    \/ PwrEnsure(App)
    \/ ThreadClear(App)
    \/ ThreadStart(App)
    \/ OpDone
    \/ \E w \in Workers : RetransmissionWorker(w) \/ PublishWithDataset(w)
                            \/ PublishSendFreed(w)

SpecDestroy == InitSchedule /\ [][NextDestroy]_vars

\* ---------------------- the capture thread fed with a sequence of messages
\* the receiver's callback hands one decoded message to handle_goose_message
Capture(messages) ==
    /\ Len(hist) < MaxMsgs
    /\ \E goose_data \in messages : HandleGooseMessage(goose_data)

\* messages of two publishers, differing in what retransmission detection reads
CounterMessages ==
    [goID : {"G1", "G2"}, stNum : {5, 6}, sqNum : 0..MaxCapSq,
     src_mac : {Mac("A", FALSE)}, dst_mac : {Mac("M", FALSE)}, appId : {10}]

NextCapture ==
    \/ Capture(CounterMessages)
    \/ SetShowRetransmissions

SpecCapture == Init /\ [][NextCapture]_vars

\* messages of one publication, differing in what the filters read; Sniffer_Raw
\* writes decoded addresses in lower case, its fallback destination in upper case
AddressMessages ==
    [goID : {"G1"}, stNum : {5}, sqNum : {0},
     src_mac : {Mac("A", FALSE), Mac("C", FALSE)},
     dst_mac : {Mac("B", TRUE), Mac("N", FALSE)}, appId : {10, 16}]

NextFiltered == Capture(AddressMessages)

SpecFiltered == InitFiltered /\ [][NextFiltered]_vars

\* ------------- the LinkedList of the dataset, element by element: set_dataset
\* ------------- by the application thread beside a cyclic publisher thread
\* the MmsValue objects set_dataset builds from value list v, in order
ListOf(v) == [i \in 1..NumValues |-> <<v, i>>]

\* wrapper 703-709 and 714: enable(create_default=False) returns at once with
\* no values; otherwise "self.dataset = iec61850.LinkedList_create()" makes
\* self.dataset an empty list before any value is added, and line 721 takes the
\* list object dataset_values refers to at that moment to iterate over
EnableCreate(t) ==
    /\ th[t].pc \in {"p_enable", "s_enable"}
    /\ IF dataset_values = 0
       THEN /\ th' = [th EXCEPT ![t] = IF th[t].pc = "p_enable"
                                       THEN [@ EXCEPT !.pc = "p_recheck"]
                                       ELSE Return(t, "none")]
            /\ UNCHANGED <<dataset, linked>>
       ELSE /\ dataset' = dataset_values
            /\ linked' = <<>>
            /\ th' = [th EXCEPT ![t].pc = IF th[t].pc = "p_enable" THEN "p_add" ELSE "s_add",
                                ![t].val = dataset_values, ![t].tmp = 0]
    /\ UNCHANGED <<st_num, sq_num, goose_enabled, dataset_values, stop_event, thread,
                   ui_values, last, edit_base, sent, pub, delivered, gh, capvars>>

\* wrapper 721-723: one iteration of the loop, LinkedList_add(self.dataset,
\* mms_val) with self.dataset read again in every iteration; after the last
\* value comes line 725.  A self.dataset that the other thread has set to None
\* makes the call raise: publish (line 779) returns False, set_dataset
\* (line 639) prints the error and returns.
EnableAdd(t) ==
    /\ th[t].pc \in {"p_add", "s_add"}
    /\ IF th[t].tmp = NumValues
       THEN /\ th' = [th EXCEPT ![t].pc = IF th[t].pc = "p_add" THEN "p_enable_flag"
                                           ELSE "s_enable_flag",
                                ![t].tmp = 0]
            /\ UNCHANGED linked
       ELSE IF dataset = 0
            THEN /\ th' = [th EXCEPT ![t] = Return(t, IF th[t].pc = "p_add" THEN "error"
                                                       ELSE "none")]
                 /\ UNCHANGED linked
            ELSE /\ linked' = Append(linked, ListOf(th[t].val)[th[t].tmp + 1])
                 /\ th' = [th EXCEPT ![t].tmp = @ + 1]
    /\ UNCHANGED <<st_num, sq_num, goose_enabled, dataset, dataset_values, stop_event,
                   thread, ui_values, last, edit_base, sent, pub, delivered, gh, capvars>>

\* wrapper 766-783: GoosePublisher_publish(self.publisher, self.dataset) encodes
\* the elements the list holds at the time of the call
SendDataset(t) ==
    /\ th[t].pc = "p_send"
    /\ IF dataset = 0
       THEN /\ th' = [th EXCEPT ![t] = Return(t, "error")]
            /\ UNCHANGED <<last, sent>>
       ELSE /\ \E ok \in BOOLEAN :
                 th' = [th EXCEPT ![t] = Return(t, IF ok THEN "ok" ELSE "send_failed")]
            /\ last' = <<st_num, sq_num>>
            /\ sent' = [any |-> TRUE, elements |-> linked]
    /\ UNCHANGED <<st_num, sq_num, goose_enabled, dataset, dataset_values, stop_event,
                   thread, ui_values, edit_base, linked, pub, delivered, gh,
                   capvars>>

\* the publisher after set_dataset(value list 1) and start_cyclic_publish: the
\* list is complete and the cyclic thread is about to publish
InitDataset ==
    /\ st_num = 0
    /\ sq_num = 0
    /\ goose_enabled = TRUE
    /\ dataset = 1
    /\ dataset_values = 1
    /\ stop_event = FALSE
    /\ thread = 1
    /\ th = [t \in Threads |-> IF t = App THEN IdleApp
                               ELSE IF t = 1 THEN [NoThread EXCEPT !.pc = EntryOf("cyclic"),
                                                                   !.kind = "cyclic"]
                               ELSE NoThread]
    /\ ui_values = 1
    /\ last = <<0, 0>>
    /\ edit_base = 0
    /\ linked = ListOf(1)
    /\ sent = NoPayload
    /\ pub = NoPublication
    /\ delivered = <<0, 0>>
    /\ gh = NoHandler
    /\ InitCapture

\* Publisher_Page 1160-1165: the GUI thread hands the whole dataset to
\* set_dataset (a value list with at least one item)
CallSetDatasetFull ==
    /\ th[App].pc = "idle"
    /\ \E v \in 1..NumDatasets :
         th' = [th EXCEPT ![App] = [Call(App, "s_values", "op_done") EXCEPT !.val = v]]
    /\ UNCHANGED <<st_num, sq_num, goose_enabled, dataset, dataset_values,
                   stop_event, thread, ui_values, last, edit_base, capvars, listvars>>

NextDataset ==
    \/ CallSetDatasetFull
    \/ OpDone
    \/ SetDatasetValues(App)
    \/ SetDatasetDisable(App)
    \/ SetDatasetNone(App)
    \/ SetDatasetEnableFlag(App)
    \/ CyclicCheck(1)
    \/ CyclicWait(1)
    \/ PublishCheckEnabled(1)
    \/ PublishCheckDataset(1)
    \/ PublishEnableFlag(1)
    \/ PublishRecheck(1)
    \/ PublishCount(1)
    \/ PublishSqWrite(1)
    \/ \E t \in {App, 1} : EnableCreate(t)
    \/ \E t \in {App, 1} : EnableAdd(t)
    \/ SendDataset(1)

SpecDataset == InitDataset /\ [][NextDataset]_vars

\* ------------- the started raw sniffer in the capture loop: Ethernet frames
\* ------------- arrive at the socket, one capture_single call after the other
\* Sniffer_Raw.py 30 and 31
ETH_P_GOOSE == 35000
GOOSE_MULTICAST_PREFIX == <<1, 12, 205, 1>>

\* a filter that looks at the Ethertype only
EthertypeOnly(packet) ==
    /\ Len(packet) >= 14
    /\ BigEndian(Slice(packet, 12, 14)) = ETH_P_GOOSE

\* _process_packet, Sniffer_Raw.py 461-478: the three tests a packet passes
\* before it is parsed
IsGooseFrame(packet) ==
    /\ Len(packet) >= 14
    /\ BigEndian(Slice(packet, 12, 14)) = ETH_P_GOOSE
    /\ Slice(packet, 0, 4) = GOOSE_MULTICAST_PREFIX

\* an Ethernet frame: destination, source, Ethertype, payload
Ether(dst, type, payload) == dst \o <<0, 1, 2, 3, 4, 5>> \o type \o payload

\* well-formed GOOSE frames
GooseFrames == {Ether(<<1, 12, 205, 1, 0, 1>>, <<136, 184>>, f) : f \in ValidFrames}

\* GOOSE frames with a damaged payload: nothing, a cut header, a PDU cut short,
\* a wrong PDU tag
DamagedFrames ==
    {Ether(<<1, 12, 205, 1, 0, 1>>, <<136, 184>>, p) :
        p \in {<<>>, <<0, 16, 0>>, Header(9) \o <<98, 0>>}
              \cup {SubSeq(f, 1, Len(f) - 1) : f \in ValidFrames}}

\* frames that are not GOOSE: other Ethertypes (IPv4, GSE management, sampled
\* values, the bytes swapped), other destinations, less than an Ethernet header
OtherFrames ==
    LET f == CHOOSE x \in ValidFrames : TRUE
    IN {Ether(<<1, 12, 205, 1, 0, 1>>, t, f) :
            t \in {<<8, 0>>, <<136, 185>>, <<136, 186>>, <<184, 136>>}}
       \cup {Ether(d, <<136, 184>>, f) :
            d \in {<<1, 12, 205, 4, 0, 1>>, <<1, 12, 205, 2, 0, 1>>, <<1, 12, 204, 1, 0, 1>>,
                   <<1, 13, 205, 1, 0, 1>>, <<0, 12, 205, 1, 0, 1>>,
                   <<255, 255, 255, 255, 255, 255>>}}
       \cup {SubSeq(Ether(<<1, 12, 205, 1, 0, 1>>, <<136, 184>>, f), 1, 13),
             <<1, 12, 205, 1>>}

\* the state after EnhancedGOOSERawSniffer.start() returned True (lines
\* 298-303) in a capture thread that has not been asked to stop
InitFrames ==
    /\ InitPublisher
    /\ InitCaptureThread
    /\ filters = <<>>
    /\ show_retransmissions = TRUE
    /\ data = <<>>
    /\ parsed = NotParsed
    /\ rs = [NotStarted EXCEPT !.running = TRUE]
    /\ NoSession

\* a sniffer that gives up at the first socket error
StopOnSocketError(r) == [r EXCEPT !.error_count = @ + 1, !.running = FALSE]

\* what a socket error or an exceptional condition does to the sniffer
\* (capture_single 381-384, 400-403): it is counted, and False is returned
OnSocketError(r) == [r EXCEPT !.error_count = @ + 1]

\* capture_single (372-411) with nothing to process: select reports an
\* exceptional condition, or recvfrom fails with a socket error
CaptureError ==
    /\ rs.running
    /\ rs.packet_count + rs.error_count < MaxFrames
    /\ rs' = OnSocketError(rs)
    /\ UNCHANGED <<data, parsed, last_messages, filters, show_retransmissions,
                   message_count, hist, out, pubvars, sesvars>>

\* a sniffer that keeps no count of the packets it reads
CountNothing(r) == r

\* capture_single 388-390: a packet that was read is counted before it is
\* processed
CountPacket(r) == [r EXCEPT !.packet_count = @ + 1]

\* capture_single (372-392) receives a packet and _process_packet (457-491)
\* handles it: a packet that passes the tests is parsed from byte 14 on, and the
\* result, a dictionary, goes to the callback, handle_goose_message
CaptureSingle(packet) ==
    /\ rs.running
    /\ rs.packet_count + rs.error_count < MaxFrames
    /\ packet # <<>>
    /\ data' = packet
    /\ IF IsGooseFrame(packet)
       THEN LET r == parse_goose_enhanced(Slice(packet, 14, Len(packet)))
            IN /\ parsed' = [fn |-> "parse_goose_enhanced"] @@ r
               /\ rs' = [CountPacket(rs) EXCEPT !.parser_calls = @ + 1,
                                                !.callback_calls = @ + 1]
               /\ handle_goose_message(r.ret.info)
       ELSE /\ parsed' = NotParsed
            /\ rs' = CountPacket(rs)
            /\ UNCHANGED <<last_messages, message_count, hist, out>>
    /\ UNCHANGED <<filters, show_retransmissions, pubvars, sesvars>>

NextFrames ==
    \/ \E packet \in GooseFrames \cup DamagedFrames \cup OtherFrames : CaptureSingle(packet)
    \/ CaptureError

SpecFrames == InitFrames /\ [][NextFrames]_vars

\* ------------- the same capture loop in a thread that has filters, and whose
\* ------------- show-retransmissions setting the user changes
\* the capture thread was started without filters or with an APPID filter
InitCounted ==
    /\ InitPublisher
    /\ InitCaptureThread
    /\ filters \in {<<>>, <<"app_id" :> 10>>, <<"app_id" :> 16>>}
    /\ show_retransmissions = TRUE
    /\ data = <<>>
    /\ parsed = NotParsed
    /\ rs = [NotStarted EXCEPT !.running = TRUE]
    /\ NoSession

NextCounted ==
    \/ \E packet \in GooseFrames \cup DamagedFrames \cup OtherFrames : CaptureSingle(packet)
    \/ CaptureError
    \/ SetShowRetransmissions

SpecCounted == InitCounted /\ [][NextCounted]_vars

\* ------------- the round trip: a publication through the encoder of the
\* ------------- publisher and the decoder of the sniffer
\* the dataset members set_dataset can create, pyiec61850_wrapper.py 585-626:
\* a boolean (1 is true), an Int32, a UTC time in milliseconds and a bit-string
\* of 16 bits
Members ==
    {[type |-> "boolean", value |-> 1], [type |-> "integer", value |-> 1000],
     [type |-> "utc-time", value |-> 1000], [type |-> "bit-string", value |-> 0]}

\* the non-empty datasets of at most MaxMembers members
Datasets == UNION {[1..n -> Members] : n \in 1..MaxMembers}

\* the publications: the fields GOOSEPublisher hands to the library,
\* pyiec61850_wrapper.py 540-575 and 751-770; texts are the codes of their characters
Publications ==
    [appId : {16}, goCbRef : {<<97>>}, datSet : {<<98>>}, goID : {<<71>>},
     stNum : {1, 2}, sqNum : {0, 1}, confRev : {1}, test : {FALSE}, ndsCom : {FALSE},
     timeAllowedToLive : {2000}, dataset : Datasets]

\* an unsigned number of at most two bytes, big-endian, in the fewest bytes
UIntBytes(n) == IF n < 256 THEN <<n>> ELSE <<n \div 256, n % 256>>

\* a BER boolean
BoolBytes(b) == IF b THEN <<1>> ELSE <<0>>

\* one dataset member as the library encodes it: 0x83 boolean, 0x85 integer,
\* 0x84 bit-string with one leading unused-bits byte, 0x91 utc-time as four
\* bytes of seconds, three bytes of fraction and one quality byte
encodeMember(m) ==
    CASE m.type = "boolean" -> TLV(131, BoolBytes(m.value # 0))
      [] m.type = "integer" -> TLV(133, UIntBytes(m.value))
      [] m.type = "bit-string" -> TLV(132, <<0, m.value \div 256, m.value % 256>>)
      [] m.type = "utc-time" ->
           LET seconds == m.value \div 1000
               fraction == ((m.value % 1000) * 16777216) \div 1000
           IN TLV(145, <<0, 0, seconds \div 256, seconds % 256,
                         fraction \div 65536, (fraction \div 256) % 256, fraction % 256,
                         0>>)

\* the concatenation of the encoded members
RECURSIVE encodeAllData(_)
encodeAllData(ds) ==
    IF ds = <<>> THEN <<>> ELSE encodeMember(Head(ds)) \o encodeAllData(Tail(ds))

\* GoosePublisher_publish of the library, called at pyiec61850_wrapper.py 770:
\* the APPID, the length, four reserved bytes and the PDU under tag 0x61 with
\* the fields 0x80 to 0x8A and the allData under 0xAB
encode(p) ==
    LET pdu == TLV(128, p.goCbRef) \o TLV(129, UIntBytes(p.timeAllowedToLive)) \o
               TLV(130, p.datSet) \o TLV(131, p.goID) \o
               TLV(132, <<0, 0, 0, 1, 0, 0, 0, 0>>) \o TLV(133, UIntBytes(p.stNum)) \o
               TLV(134, UIntBytes(p.sqNum)) \o TLV(135, BoolBytes(p.test)) \o
               TLV(136, UIntBytes(p.confRev)) \o TLV(137, BoolBytes(p.ndsCom)) \o
               TLV(138, <<Len(p.dataset)>>) \o TLV(171, encodeAllData(p.dataset))
    IN <<p.appId \div 256, p.appId % 256, 0, Len(pdu) + 10, 0, 0, 0, 0>> \o TLV(97, pdu)

\* Sniffer_Raw.py 764-818: the Python object appended to values for one TLV: a
\* bool, an int (integer, unsigned and utc-time alike), a float, or a str
python_value(v) ==
    CASE v.type = "boolean" -> [py |-> "bool", num |-> v.num, text |-> <<>>]
      [] v.type \in {"integer", "unsigned", "utc-time"} ->
           [py |-> "int", num |-> v.num, text |-> <<>>]
      [] v.type \in {"float", "double"} -> [py |-> "float", num |-> 0, text |-> v.bytes]
      [] v.type = "visible-string" -> [py |-> "str", num |-> 0, text |-> v.bytes]
      [] OTHER -> [py |-> "str:" \o v.type, num |-> v.num, text |-> v.bytes]

\* the publication passes through the encoder
Encode ==
    /\ data = <<>>
    /\ parsed = NotParsed
    /\ data' = encode(pub)
    /\ UNCHANGED <<parsed, rs, sesvars, last_messages, filters, show_retransmissions,
                   message_count, hist, out, pubvars>>

InitRoundTrip ==
    /\ InitCaptureThread
    /\ InitSniffer
    /\ filters = <<>>
    /\ show_retransmissions = TRUE
    /\ st_num = 0
    /\ sq_num = 0
    /\ goose_enabled = FALSE
    /\ dataset = 0
    /\ dataset_values = 0
    /\ stop_event = FALSE
    /\ thread = 0
    /\ th = [t \in Threads |-> IF t = App THEN IdleApp ELSE NoThread]
    /\ ui_values = 1
    /\ last = <<0, 0>>
    /\ edit_base = 0
    /\ linked = <<>>
    /\ sent = NoPayload
    /\ pub \in Publications
    /\ delivered = <<0, 0>>
    /\ gh = NoHandler

NextRoundTrip ==
    \/ Encode
    \/ ParseGooseEnhanced

SpecRoundTrip == InitRoundTrip /\ [][NextRoundTrip]_vars

\* ------------- one captured sequence under different filter lists and
\* ------------- settings of the retransmission display
\* messages of two publishers that differ in their counters and in the APPID
\* the filters read
FilteredCounterMessages ==
    [goID : {"G1", "G2"}, stNum : {5, 6}, sqNum : {0, 1},
     src_mac : {Mac("A", FALSE)}, dst_mac : {Mac("M", FALSE)}, appId : {10, 16}]

NextIndependent ==
    \/ Capture(FilteredCounterMessages)
    \/ SetShowRetransmissions

SpecIndependent == InitCounted /\ [][NextIndependent]_vars

\* ------------- publish_with_retransmission without a dataset: a running
\* ------------- schedule, then set_dataset and publish_with_retransmission calls
\* a retransmission schedule is running, started by publish_with_retransmission
InitNoDataset ==
    /\ st_num = 0
    /\ sq_num = 0
    /\ goose_enabled = TRUE
    /\ dataset = 1
    /\ dataset_values = 1
    /\ stop_event = FALSE
    /\ thread = 1
    /\ th = [t \in Threads |->
               IF t = App THEN IdleApp
               ELSE IF t = 1 THEN [NoThread EXCEPT !.pc = EntryOf("retrans"),
                                                   !.kind = "retrans"]
               ELSE NoThread]
    /\ ui_values = 1
    /\ last = <<0, 0>>
    /\ edit_base = 0
    /\ linked = <<>>
    /\ sent = NoPayload
    /\ pub = NoPublication
    /\ delivered = <<0, 0>>
    /\ gh = NoHandler
    /\ InitCapture

\* the application calls set_dataset([]) (GOOSEManager.start_publisher,
\* pyiec61850_wrapper.py 1636) on a publisher that has values
CallSetDatasetEmpty ==
    /\ th[App].pc = "idle"
    /\ dataset_values # 0
    /\ th' = [th EXCEPT ![App] = [Call(App, "s_values", "op_done")
                                      EXCEPT !.val = 0, !.mk = "none"]]
    /\ UNCHANGED <<st_num, sq_num, goose_enabled, dataset, dataset_values,
                   stop_event, thread, ui_values, last, edit_base, capvars, listvars>>

\* the application calls publish_with_retransmission (line 1638), which begins
\* with stop_retransmission (line 794); mk stays "retrans" until the next call
CallPublishWithRetransmission ==
    /\ th[App].pc = "idle"
    /\ th' = [th EXCEPT ![App] = [Call(App, "stop_chk", "pwr_ensure")
                                      EXCEPT !.mk = "retrans"]]
    /\ UNCHANGED <<st_num, sq_num, goose_enabled, dataset, dataset_values,
                   stop_event, thread, ui_values, last, edit_base, capvars, listvars>>

\* the call has returned: the application is back in its event loop
ReturnToLoop ==
    /\ th[App].pc = "op_done"
    /\ th' = [th EXCEPT ![App].pc = "idle"]
    /\ UNCHANGED <<st_num, sq_num, goose_enabled, dataset, dataset_values,
                   stop_event, thread, ui_values, last, edit_base, capvars, listvars>>

\* set_dataset([]) ends without enable(), and a publish() that calls enable()
\* without values comes back without a dataset: line 725 is not among the steps
NextNoDataset ==
    \/ CallSetDatasetEmpty
    \/ CallPublishWithRetransmission
    \/ ReturnToLoop
    \/ SetDatasetValues(App)
    \/ SetDatasetDisable(App)
    \/ SetDatasetNone(App)
    \/ SetDatasetEnable(App)
    \/ StopRetransmission(App)
    \/ PwrEnsure(App)
    \/ ThreadClear(App)
    \/ ThreadStart(App)
    \/ \E w \in Workers : PublishWithDataset(w) \/ PublishEnable(w)
                            \/ RetransmissionWorker(w)

SpecNoDataset == InitNoDataset /\ [][NextNoDataset]_vars

\* ------------- one caller and a transport that can fail, with the message the
\* ------------- transport accepted last
\* a publisher that takes the sequence number back when the transport fails
RolledBack(sq) == IF sq > 0 THEN sq - 1 ELSE sq

\* lines 778-780: a transport error is logged and False returned; sq_num keeps
\* the value line 760 gave it
AfterFailedSend(sq) == sq

\* lines 766-780 with a dataset: the transport accepts the message (0) or
\* reports an error; the counters are not written after the call
PublishSendResult(t) ==
    /\ th[t].pc = "p_send"
    /\ dataset # 0
    /\ \E ok \in BOOLEAN :
         /\ th' = [th EXCEPT ![t] = Return(t, IF ok THEN "ok" ELSE "send_failed")]
         /\ delivered' = IF ok THEN <<st_num, sq_num>> ELSE delivered
         /\ sq_num' = IF ok THEN sq_num ELSE AfterFailedSend(sq_num)
    /\ last' = <<st_num, sq_num>>
    /\ UNCHANGED <<st_num, goose_enabled, dataset, dataset_values, stop_event, thread,
                   ui_values, edit_base, capvars, linked, sent, pub, gh>>

\* With one caller the dataset publish() found at line 747 is still there at
\* line 766.
NextSendResult ==
    \/ CallPublish
    \/ CallSetDataset
    \/ OpDone
    \/ SetDataset(App)
    \/ PublishCheckEnabled(App)
    \/ PublishCheckDataset(App)
    \/ PublishRecheck(App)
    \/ PublishCount(App)
    \/ PublishStWrite(App)
    \/ PublishSqReset(App)
    \/ PublishSqWrite(App)
    \/ PublishSendResult(App)

SpecSendResult == Init /\ [][NextSendResult]_vars

\* ------------- a capture session that receives messages while it is started
\* ------------- and stopped
\* capture_single inside the loop of run_raw_socket_mode (Sniffer_Page.py
\* 575-576) hands a decoded message to handle_goose_message, which returns at
\* once when the stop event is set (lines 596-597)
SessionHandle(s, goose_data) ==
    /\ sn[s].pc = "loop"
    /\ Len(hist) < MaxMsgs
    /\ IF sn[s].stop_event
       THEN UNCHANGED <<last_messages, message_count, hist, out>>
       ELSE handle_goose_message(goose_data)
    /\ UNCHANGED <<filters, show_retransmissions, pubvars, rawvars, sesvars>>

\* the messages of one publisher: a state change and its retransmission
StoppedMessages ==
    [goID : {"G1"}, stNum : {5}, sqNum : {0, 1},
     src_mac : {Mac("A", FALSE)}, dst_mac : {Mac("M", FALSE)}, appId : {10}]

NextStopped ==
    \E s \in {1} :
        \/ StartCapture(s)
        \/ SessionSteps(s)
        \/ \E goose_data \in StoppedMessages : SessionHandle(s, goose_data)

SpecStopped == InitSession /\ [][NextStopped]_vars

\* ------------- GOOSEHandler (iec61850_system/goose_handler.py): the control
\* ------------- blocks extracted from the SCL data and send_test_goose
\* the names of control blocks, among them one no SCL file of the model has
GcbNames == {"gcb1", "gcb2", "gcb3", "other"}

\* a Python str and the dict _extract_goose_controls builds for a control
\* block (lines 106-129)
PyStr(s) == [type |-> "str", name |-> s]
PyDict(n) == [type |-> "dict", name |-> n]

\* Python's ==: objects of different types are not equal
PyEq(a, b) == a.type = b.type /\ a.name = b.name

\* Python's "x in list": some element equals x
InList(x, list) == \E i \in 1..Len(list) : PyEq(list[i], x)

\* what _extract_goose_controls returns (lines 58-131): a list with one dict for
\* each GSEControl of the SCL data
ControlLists ==
    UNION {[1..n -> {PyDict(n1) : n1 \in {"gcb1", "gcb2", "gcb3"}}] : n \in 0..2}

\* the loop of lines 227-231: the first control block with the name
HasControl(h, gcb_name) ==
    \E i \in 1..Len(h.goose_controls) : h.goose_controls[i].name = gcb_name

\* GOOSEHandler.create_publisher, lines 225-267; made is whether
\* GoosePublisher_create returns a publisher
create_publisher(h, gcb_name, made) ==
    IF ~HasControl(h, gcb_name)
    THEN [h EXCEPT !.ret = "None", !.printed = "not_found"]
    ELSE IF ~made THEN [h EXCEPT !.ret = "None", !.printed = "create_failed"]
    ELSE [h EXCEPT !.goose_publishers = @ \cup {gcb_name}, !.ret = "publisher",
                   !.printed = "created"]

\* GOOSEHandler.publish_goose, lines 269-307; sent is whether the library calls
\* return without an exception
publish_goose(h, gcb_name, sent_ok) ==
    IF gcb_name \notin h.goose_publishers
    THEN [h EXCEPT !.ret = "False", !.printed = "no_publisher"]
    ELSE IF sent_ok THEN [h EXCEPT !.ret = "True", !.printed = "published"]
    ELSE [h EXCEPT !.ret = "False", !.printed = "publish_error"]

\* GOOSEHandler.send_test_goose, lines 576-606: line 578 looks the name up in
\* the list of control-block dicts
send_test_goose(h, gcb_name, made, sent_ok) ==
    IF ~InList(PyStr(gcb_name), h.goose_controls)
    THEN [h EXCEPT !.ret = "False", !.printed = "unknown"]
    ELSE LET c == IF gcb_name \notin h.goose_publishers
                  THEN create_publisher(h, gcb_name, made) ELSE h
         IN IF gcb_name \notin h.goose_publishers /\ c.ret = "None"
            THEN [c EXCEPT !.ret = "False"]
            ELSE publish_goose(c, gcb_name, sent_ok)

\* GOOSEHandler(scl_data): the control blocks are extracted
InitTestGoose ==
    /\ st_num = 0
    /\ sq_num = 0
    /\ goose_enabled = FALSE
    /\ dataset = 0
    /\ dataset_values = 0
    /\ stop_event = FALSE
    /\ thread = 0
    /\ th = [t \in Threads |-> IF t = App THEN IdleApp ELSE NoThread]
    /\ ui_values = 1
    /\ last = <<0, 0>>
    /\ edit_base = 0
    /\ linked = <<>>
    /\ sent = NoPayload
    /\ pub = NoPublication
    /\ delivered = <<0, 0>>
    /\ gh \in {[NoHandler EXCEPT !.goose_controls = c] : c \in ControlLists}
    /\ InitCapture

\* send_test_goose(gcb_name) is called (test_executor.py 674, 769)
SendTestGoose(gcb_name) ==
    /\ \E made \in BOOLEAN, sent_ok \in BOOLEAN :
         gh' = [send_test_goose(gh, gcb_name, made, sent_ok)
                    EXCEPT !.fn = "send_test_goose", !.arg = gcb_name]
    /\ UNCHANGED <<st_num, sq_num, goose_enabled, dataset, dataset_values, stop_event,
                   thread, th, ui_values, last, edit_base, linked, sent, pub, delivered,
                   capvars>>

\* create_publisher(gcb_name) is called (by simulate_goose_burst, line 612)
CreatePublisher(gcb_name) ==
    /\ \E made \in BOOLEAN :
         gh' = [create_publisher(gh, gcb_name, made)
                    EXCEPT !.fn = "create_publisher", !.arg = gcb_name]
    /\ UNCHANGED <<st_num, sq_num, goose_enabled, dataset, dataset_values, stop_event,
                   thread, th, ui_values, last, edit_base, linked, sent, pub, delivered,
                   capvars>>

NextTestGoose ==
    \E gcb_name \in GcbNames :
        \/ SendTestGoose(gcb_name)
        \/ CreatePublisher(gcb_name)

SpecTestGoose == InitTestGoose /\ [][NextTestGoose]_vars

\* ======================================================== the claims
\* thread t hands a message to the transport in this step
Sends(t) ==
    /\ th[t].pc = "p_send"
    /\ th'[t].pc # "p_send"
    /\ th'[t].ret \in {"ok", "send_failed"}

\* the worker started by the last publish_message call has returned from its
\* first transmission, and no later edit is being handled
FirstSentAfterEdit ==
    /\ thread # 0
    /\ th[thread].kind = "retrans"
    /\ th[thread].pc = "w_first"
    /\ th[thread].ret \in {"ok", "send_failed"}
    /\ (th[App].mk # "retrans" \/ th[App].pc = "op_done")

\* C1: one edited value raises stNum by exactly 1 between the call of
\* publish_message and the first message of the worker it starts.
C1_OneEditOneStNum == FirstSentAfterEdit => st_num = edit_base + 1

\* C2: with a single caller every message handed to the transport follows the
\* previous one (or the initial counters) by stNum + 1 and sqNum = 0 for
\* publish(True), by the same stNum and sqNum + 1 for publish(False); between
\* calls the counters are those of the last message.
C2_SingleCallerCounters ==
    /\ [](th[App].pc = "idle" => <<st_num, sq_num>> = last)
    /\ [][Sends(App) =>
            IF th[App].inc
            THEN st_num = last[1] + 1 /\ sq_num = 0
            ELSE st_num = last[1] /\ sq_num = last[2] + 1]_vars

\* C2 witness: two state changes followed by one retransmission have been sent
C2_Witness ==
    /\ th[App].pc = "op_done"
    /\ th[App].ret = "ok"
    /\ ~th[App].inc
    /\ last = <<2, 1>>

\* C3: with publish() called from the application thread and from the
\* retransmission worker, no two messages handed to the transport carry the
\* same (stNum, sqNum): here, no message repeats the pair of the message
\* handed over just before it.
C3_NoDuplicatePair ==
    [][\A t \in Threads :
          (Sends(t) /\ \A w \in Workers : th[w].kind # "cyclic")
            => <<st_num, sq_num>> # last]_vars

\* the worker threads that are alive
AliveWorkers == {w \in Workers : is_alive(w)}

\* C4: when no stop request is pending, at most one retransmission or cyclic
\* worker thread is alive for the publisher.
C4_SingleWorker == ~stop_event => Cardinality(AliveWorkers) <= 1

\* C5: no publish() of the retransmission worker is refused at the goose_enabled check
\* because set_dataset on the application thread has cleared the flag and not
\* yet restored it.
C5_NoRefusalDuringUpdate ==
    \A w \in Workers : th[w].kind = "retrans" => th[w].ret # "disabled_in_update"

\* the handled message i and an earlier message j come from the same publisher
SameGoId(i, j) == j < i /\ hist[j].goID = hist[i].goID

\* the most recent message before message i with the same goID (0 if none)
Previous(i) ==
    LET earlier == {j \in 1..Len(hist) : SameGoId(i, j)}
    IN IF earlier = {} THEN 0 ELSE CHOOSE j \in earlier : \A k \in earlier : k <= j

\* C6: handle_goose_message marks a message as a retransmission iff an entry
\* for its goID exists whose stored stNum equals the message's stNum and the
\* message's sqNum is greater than 0, and then overwrites the entry with the
\* message's (stNum, sqNum) for every message.  So G1 (5,0) then G1 (5,1)
\* gives unmarked, marked; a message with sqNum > 0 fed twice in a row has
\* its second copy marked; a message whose stNum differs from the stored one
\* is not marked.
C6_MarkedAgainstStoredEntry ==
    /\ [][hist' # hist =>
            LET m == out'.msg
            IN /\ out'.is_retransmission =
                    (/\ m.goID \in DOMAIN last_messages
                     /\ last_messages[m.goID].stNum = m.stNum
                     /\ m.sqNum > 0)
               /\ last_messages'[m.goID] = [stNum |-> m.stNum, sqNum |-> m.sqNum]
               /\ m.goID \in DOMAIN last_messages /\ last_messages[m.goID].stNum # m.stNum
                    => ~out'.is_retransmission]_vars
    /\ [](\A i \in 2..Len(hist) :
            /\ (/\ i = 2
                /\ \A k \in 1..2 : hist[k].goID = "G1" /\ hist[k].stNum = 5
                /\ hist[1].sqNum = 0 /\ hist[2].sqNum = 1)
                  => ~hist[1].is_retransmission /\ hist[2].is_retransmission
            /\ (/\ hist[i].goID = hist[i-1].goID /\ hist[i].stNum = hist[i-1].stNum
                /\ hist[i].sqNum = hist[i-1].sqNum /\ hist[i].sqNum > 0)
                  => hist[i].is_retransmission)

\* C6 witness: G1 (5,0) was handled unmarked, then G1 (5,1) marked
C6_Witness ==
    /\ Len(hist) >= 2
    /\ hist[1] = [goID |-> "G1", stNum |-> 5, sqNum |-> 0, is_retransmission |-> FALSE]
    /\ hist[2] = [goID |-> "G1", stNum |-> 5, sqNum |-> 1, is_retransmission |-> TRUE]
    /\ last_messages["G1"] = [stNum |-> 5, sqNum |-> 1]

\* C7 as stated: a message is marked iff some earlier message with the same
\* goID had the same stNum and a smaller or equal sqNum.
C7_MarkedIffSeenEarlier ==
    \A i \in 1..Len(hist) :
        hist[i].is_retransmission =
            (\E j \in 1..Len(hist) :
                /\ SameGoId(i, j)
                /\ hist[j].stNum = hist[i].stNum
                /\ hist[j].sqNum <= hist[i].sqNum)

\* C7 amended: a message is marked iff the most recent earlier message with
\* the same goID has the same stNum and the message's own sqNum is greater
\* than 0; earlier messages further back and the earlier sqNum play no part.
C7_MarkedIffSameAsPrevious ==
    \A i \in 1..Len(hist) :
        hist[i].is_retransmission =
            (/\ Previous(i) # 0
             /\ hist[Previous(i)].stNum = hist[i].stNum
             /\ hist[i].sqNum > 0)

\* C7 witness: stNum 5 was seen, then stNum 6, then stNum 5 again with
\* sqNum 1, and the third message is not marked
C7_Witness ==
    /\ Len(hist) = 3
    /\ \A k \in 1..3 : hist[k].goID = "G1"
    /\ hist[1].stNum = 5 /\ hist[2].stNum = 6
    /\ hist[3].stNum = 5 /\ hist[3].sqNum = 1
    /\ ~hist[3].is_retransmission

\* two MAC texts denote the same address
SameAddress(m1, m2) == m1.a = m2.a

\* filter f names the message's appId, or its source or destination address
\* as mac or as resolved_mac
Names(f, m) ==
    \/ "app_id" \in DOMAIN f /\ f["app_id"] = m.appId
    \/ /\ "mac" \in DOMAIN f
       /\ SameAddress(f["mac"], m.src_mac) \/ SameAddress(f["mac"], m.dst_mac)
    \/ /\ "resolved_mac" \in DOMAIN f
       /\ \/ SameAddress(f["resolved_mac"], m.src_mac)
          \/ SameAddress(f["resolved_mac"], m.dst_mac)

\* the filters of a list that are flagged ip_unresolved
Unresolved(fs) == {i \in 1..Len(fs) : "ip_unresolved" \in DOMAIN fs[i] /\ fs[i]["ip_unresolved"]}

\* C8: with a non-empty filter list apply_enhanced_filters passes a message
\* iff at least one filter not flagged ip_unresolved names its appId or one
\* of its two addresses; a message named by no such filter is dropped.
C8_PassIffSomeResolvedFilterMatches ==
    out.filter_result # "not_called" =>
        (out.filter_result = "pass") =
            (\E i \in (1..Len(filters)) \ Unresolved(filters) : Names(filters[i], out.msg))

\* C8 witness: with the filters [{mac: A}, {app_id: 16}] a message from another
\* source with appId 16 has passed
C8_Witness ==
    /\ filters = <<"mac" :> Mac("A", FALSE), "app_id" :> 16>>
    /\ out.msg.src_mac = Mac("C", FALSE)
    /\ out.msg.appId = 16
    /\ out.filter_result = "pass"

\* the filter list with every ip_unresolved filter replaced by g
WithUnresolved(fs, g) ==
    [i \in 1..Len(fs) |-> IF i \in Unresolved(fs) THEN g ELSE fs[i]]

\* what an ip_unresolved filter of the dialog can contain
UnresolvedDicts == {RowDict(row) : row \in {r \in FilterRows : r.ip = "10.0.0.9"}}

\* C9: a filter flagged ip_unresolved never makes a message pass, whatever
\* mac or app_id it carries: the decision is the same for every content of
\* the ip_unresolved filters of the list.
C9_UnresolvedNeverMatches ==
    out.filter_result # "not_called" =>
        /\ out.filter_result = "pass" => Unresolved(filters) # 1..Len(filters)
        /\ \A g \in UnresolvedDicts :
              apply_enhanced_filters(WithUnresolved(filters, g), out.msg)
                = (out.filter_result = "pass")

\* C9 witness: an ip_unresolved filter carrying the message's source address
\* and appId is in the list, and the message has been dropped
C9_Witness ==
    /\ out.filter_result = "drop"
    /\ \E i \in Unresolved(filters) :
          /\ "mac" \in DOMAIN filters[i] /\ SameAddress(filters[i]["mac"], out.msg.src_mac)
          /\ "app_id" \in DOMAIN filters[i] /\ filters[i]["app_id"] = out.msg.appId

\* the filter list without its ip_unresolved filters
RECURSIVE WithoutUnresolved(_)
WithoutUnresolved(fs) ==
    IF fs = <<>> THEN <<>>
    ELSE IF 1 \in Unresolved(fs) THEN WithoutUnresolved(Tail(fs))
    ELSE <<Head(fs)>> \o WithoutUnresolved(Tail(fs))

\* C10: the forward/drop decision taken with the filter list equals the
\* decision taken with the list without its ip_unresolved filters, an empty
\* remaining list forwarding every message.
C10_AsIfUnresolvedRemoved ==
    hist # <<>> =>
        out.emitted =
            (\/ WithoutUnresolved(filters) = <<>>
             \/ apply_enhanced_filters(WithoutUnresolved(filters), out.msg))

\* C11: for every prefix of a valid encoded frame that misses at least one
\* byte, parse_goose_enhanced returns a dict: never None, and no exception
\* leaves it.
C11_TruncatedFrameGivesDict ==
    (parsed.fn = "parse_goose_enhanced" /\ data \in Truncations)
        => parsed.ret.kind = "dict"

\* C11 witness: a frame cut inside its reserved bytes has been parsed; the
\* result carries the APPID read from the frame and the default goID
C11_Witness ==
    /\ parsed.fn = "parse_goose_enhanced"
    /\ data \in Truncations
    /\ Len(data) = 6
    /\ parsed.ret.kind = "dict"
    /\ parsed.ret.info["appId"] = 16
    /\ "reserved" \notin DOMAIN parsed.ret.info
    /\ parsed.ret.info["goID"] = <<"GOOSE_", 16>>

\* C12: for every input the BER parsers index no byte at or beyond the end
\* of their buffer, and take a TLV's value only from inside the buffer, the
\* check pos + length <= len(data) having succeeded; a TLV failing the check
\* ends the parsing of its buffer.
C12_ReadsInsideBuffer ==
    /\ \A i \in parsed.idx : 0 <= i[1] /\ i[1] < i[2]
    /\ \A s \in parsed.sl : 0 <= s[1] /\ s[1] <= s[2] /\ s[2] <= s[3]

\* C12 witness: the first TLV (goID, empty) was taken, the second claims two
\* bytes where none is left and ended the parsing
C12_Witness ==
    /\ parsed.fn = "parse_goose_pdu_enhanced"
    /\ data = <<131, 0, 135, 2>>
    /\ DOMAIN parsed.ret.info = {"goID"}
    /\ <<2, 4>> \in parsed.idx

\* the session's sniffer has returned from stop() on this step
StopReturns(s) == sn[s].pc = "close" /\ sn'[s].pc = "finished"

\* every interface the session touched has the flag the session recorded
Restored(s, flags) == \A i \in DOMAIN sn[s].recorded : flags[i] = sn[s].recorded[i]

C14_StopKeepsOthersPromiscuous ==
    [][\A i \in Ifaces : (promisc[i] /\ ~promisc'[i]) =>
           ~\E s \in Sessions : sn'[s].running]_vars

\* C15: when GOOSECaptureThread.stop() returns, the session's raw socket is
\* closed and every interface it touched has its recorded promiscuous flag.
C15_ReleasedAfterStop ==
    [][\A s \in Sessions :
          (sn[s].caller # "returned" /\ sn'[s].caller = "returned") =>
              (sn'[s].socket = "none" /\ Restored(s, promisc'))]_vars

\* worker w has just sent the first message of its schedule
PastFirst(w) ==
    /\ th[w].kind = "retrans"
    /\ th[w].pc = "w_first"
    /\ th[w].ret = "ok"

\* C16: once the worker started by the latest publish_with_retransmission has
\* sent the first message of its schedule, no worker of an earlier schedule
\* hands a message to the transport.
C16_OldScheduleSilent ==
    [][\A w \in Workers :
          (Sends(w) /\ th[w].kind = "retrans" /\ thread # 0 /\ w # thread)
            => ~PastFirst(thread)]_vars

\* the application thread takes a step of publish(increase_stnum=False)
RetransmitStep == th[App].pc \in PublishPcs /\ ~th[App].inc /\ th'[App] # th[App]

\* C17: no step of publish(increase_stnum=False) changes stNum, the dataset,
\* the stop event, the worker thread or any worker's position and interval
\* cursor; its counter step stores the sq_num it read plus 1, no other step of
\* it changes sq_num, and the message it sends carries the current counters.
C17_RetransmitFrame ==
    [][RetransmitStep =>
          /\ st_num' = st_num
          /\ dataset' = dataset
          /\ dataset_values' = dataset_values
          /\ goose_enabled' = goose_enabled
          /\ stop_event' = stop_event
          /\ thread' = thread
          /\ \A w \in Workers : th'[w] = th[w]
          /\ (th[App].pc = "p_sq_write" /\ sq_num = th[App].tmp) => sq_num' = sq_num + 1
          /\ th[App].pc # "p_sq_write" => sq_num' = sq_num
          /\ Sends(App) => last' = <<st_num, sq_num>>]_vars

\* C17 witness: the application thread has sent a retransmission with sqNum 1
\* while the worker waits in its first interval, its cursor still at 0
C17_Witness ==
    /\ th[App].pc = "op_done"
    /\ th[App].ret = "ok"
    /\ last = <<1, 1>>
    /\ thread # 0
    /\ th[thread].pc = "w_wait"
    /\ th[thread].cur = 0

\* worker w is in the steady state of its schedule
InSteady(w) ==
    \/ th[w].pc \in {"w_steady_chk", "w_steady_wait"}
    \/ th[w].pc \in PublishPcs /\ th[w].rpc = "w_steady_chk"

\* worker w has come back from a publish() that handed a message to the transport
HasSent(w) ==
    /\ th[w].pc \in {"w_first", "w_next", "w_steady_chk"}
    /\ th[w].ret \in {"ok", "send_failed"}

C19_FailedSendKeepsSchedule ==
    /\ [][\A w \in Workers :
            /\ th[w].pc = "p_send" => is_alive(w)'
            /\ (th[w].ret = "send_failed" /\ th[w].pc = "w_first" /\ th'[w] # th[w])
                  => th'[w].pc = "w_wait"
            /\ (th[w].ret = "send_failed" /\ th[w].pc = "w_next" /\ th'[w] # th[w])
                  => (th'[w].cur = th[w].cur + 1 /\ th'[w].pc \in {"w_wait", "w_steady_chk"})
            /\ (th[w].ret = "send_failed" /\ th[w].pc = "w_steady_chk" /\ th'[w] # th[w])
                  => th'[w].pc = "w_steady_wait"]_vars
    /\ \A w \in Workers :
          (th[w].ret = "send_failed") ~> (th[w].pc = "p_send" \/ ~CanPublish)

\* C19 witness: a periodic message of the steady state has failed in the
\* transport and the worker is back at the top of its loop
C19_Witness ==
    \E w \in Workers :
        /\ th[w].pc = "w_steady_chk"
        /\ th[w].ret = "send_failed"
        /\ th[w].cur = NumIntervals

\* C20: once destroy() has returned, no thread hands a message to the
\* transport.
C20_SilentAfterDestroy ==
    [][\A t \in Threads : Sends(t) => th[App].pc # "destroyed"]_vars

\* the results with which publish() reports that it has sent nothing
Refusals == {"disabled", "disabled_in_update", "no_dataset"}

C22_FirstStateChange ==
    [][(Sends(App) /\ th[App].inc /\ last = <<0, 0>>) => last' = <<1, 0>>]_vars

\* C22 witness: that first message has been sent
C22_Witness ==
    /\ th[App].pc = "op_done"
    /\ th[App].ret = "ok"
    /\ th[App].inc
    /\ last = <<1, 0>>
    /\ <<st_num, sq_num>> = <<1, 0>>

\* C23: every message handed to the transport carries stNum >= 1.
C23_StNumAtLeastOne ==
    [][\A t \in Threads : Sends(t) => st_num >= 1]_vars


\* C24: every message handed to the transport carries exactly the full ordered
\* list of the values of one set_dataset call: no subset, no mixture
C24_MessageCarriesWholeDataset ==
    sent.any => \E v \in 1..NumDatasets : sent.elements = ListOf(v)


\* the messages of goID g handled so far, in order
OfGoId(g) == SelectSeq(hist, LAMBDA m : m.goID = g)

\* handle_goose_message's classification (lines 604-613) applied to a sequence
\* of messages alone, starting from the map lm: the flags it computes
RECURSIVE Replay(_, _)
Replay(msgs, lm) ==
    IF msgs = <<>> THEN <<>>
    ELSE LET m == Head(msgs)
         IN <<IsRetransmission(lm, m.goID, m.stNum, m.sqNum)>>
            \o Replay(Tail(msgs), StoreEntry(lm, m.goID, m.stNum, m.sqNum))

\* C25: the is_retransmission flags of the messages of a goID are those the
\* same messages get when they are handled alone, with the messages of every
\* other goID removed from the stream
C25_FlagPerGoId ==
    \A g \in {"G1", "G2"} :
        LET own == OfGoId(g)
        IN [i \in 1..Len(own) |-> own[i].is_retransmission] = Replay(own, EmptyDict)

C25_Witness ==
    /\ Len(hist) = 3
    /\ hist[1].goID = "G1" /\ hist[2].goID = "G2" /\ hist[3].goID = "G1"
    /\ hist[2].stNum = hist[1].stNum /\ ~hist[2].is_retransmission
    /\ hist[3].is_retransmission


\* the keys of the results parse_goose_enhanced returns for complete frames
CompleteKeys == UNION {DOMAIN parse_goose_enhanced(f).ret.info : f \in ValidFrames}

\* C27: the result of decoding a truncated PDU carries an explicit marker of
\* incompleteness: an entry that no result of a complete frame has, or a
\* result that is not an ordinary dictionary
C27_PartialResultMarked ==
    (parsed.fn = "parse_goose_enhanced" /\ data \in Truncations) =>
        \/ parsed.ret.kind # "dict"
        \/ \E k \in DOMAIN parsed.ret.info : k \notin CompleteKeys


\* the three conditions of a GOOSE frame, on the bytes of the last packet
LooksLikeGoose(packet) ==
    /\ Len(packet) >= 14
    /\ packet[13] = 136 /\ packet[14] = 184
    /\ packet[1] = 1 /\ packet[2] = 12 /\ packet[3] = 205 /\ packet[4] = 1

\* a packet has been received in this step
Received == rs'.packet_count = rs.packet_count + 1

\* C26: _process_packet calls the parser and the callback only for a packet of
\* at least 14 bytes with Ethertype 0x88B8 and a destination MAC that begins
\* 01:0C:CD:01; any other packet is dropped with neither of them called
C26_OnlyGooseFramesParsed ==
    [][Received =>
         /\ (rs'.parser_calls # rs.parser_calls \/ rs'.callback_calls # rs.callback_calls)
               => LooksLikeGoose(data')
         /\ ~LooksLikeGoose(data') =>
               /\ parsed' = NotParsed
               /\ UNCHANGED <<last_messages, message_count, hist, out>>]_vars

C26_Witness ==
    /\ rs.packet_count = 2
    /\ rs.parser_calls = 1 /\ rs.callback_calls = 1
    /\ data \in OtherFrames
    /\ Len(data) >= 14 /\ data[13] = 136 /\ data[14] = 184
    /\ Len(hist) = 1


\* C28: a frame that cannot be parsed or a failed receive does not end the
\* capture: the sniffer keeps running, and a valid GOOSE frame that arrives
\* afterwards is parsed (its own stNum and sqNum, not defaults) and delivered
C28_CaptureSurvivesBadFrames ==
    /\ [][rs.running => rs'.running]_vars
    /\ [][(Received /\ data' \in GooseFrames) =>
            /\ rs'.callback_calls = rs.callback_calls + 1
            /\ out'.emitted
            /\ out'.msg.stNum = 5 /\ out'.msg.sqNum = 1
            /\ hist' = Append(hist, [goID |-> out'.msg.goID, stNum |-> 5, sqNum |-> 1,
                                     is_retransmission |-> out'.is_retransmission])
            /\ message_count' = message_count + 1]_vars

C28_Witness ==
    /\ rs.running
    /\ rs.error_count = 1 /\ rs.packet_count = 2
    /\ Len(hist) = 2
    /\ hist[1].stNum = 1 /\ hist[1].sqNum = 0
    /\ data \in GooseFrames
    /\ out.emitted /\ out.msg.stNum = 5 /\ hist[2].stNum = 5


\* C29: a session whose start() reported success has promiscuous mode enabled
\* (by a command or on the socket), and a start() that reported failure did so
\* while no capture thread was running
C29_FailedStartBeforeThread ==
    \A s \in Sessions :
        /\ sn[s].start_ret = "true" => (cmd_ok \/ sn[s].socket_promisc)
        /\ sn[s].start_ret = "false" => ~isRunning(s)


\* C30: once stop() has been called for a session, its capture loop does not
\* go on polling: in the loop, running is cleared or the stop event is set, so
\* the next test of the loop condition ends the loop and cleanup follows
C30_LoopEndsAfterStop ==
    \A s \in Sessions :
        (sn[s].caller # "idle" /\ sn[s].pc = "loop") =>
            (~sn[s].thread_running \/ sn[s].stop_event)


\* a step in which a frame was read from the socket: neither a receive error
\* nor a change of the setting
FrameRead ==
    /\ rs'.error_count = rs.error_count
    /\ show_retransmissions' = show_retransmissions

\* C31: every frame read from the socket advances the sniffer's packet_count,
\* whether it is not GOOSE, damaged, dropped by the filters or hidden as a
\* retransmission
C31_EveryFrameCounted ==
    [][FrameRead => rs'.packet_count = rs.packet_count + 1]_vars

C31_Witness ==
    /\ rs.packet_count = 3
    /\ message_count = 0
    /\ Len(hist) = 2
    /\ hist[2].is_retransmission /\ ~show_retransmissions
    /\ filters # <<>>
    /\ data \in OtherFrames


\* the big-endian value of the n bytes of buf after position from (0-based)
RECURSIVE Octets(_, _, _)
Octets(buf, from, n) ==
    IF n = 0 THEN 0 ELSE Octets(buf, from, n - 1) * 256 + buf[from + n]

\* C32: _parse_ber_length returns length 0 for the indefinite form 0x80 (the
\* position moved past that byte), for a position at the end of the buffer and
\* for long-form octets that reach past the end; otherwise the short-form
\* value, or the big-endian value of the length octets
C32_BerLength ==
    parsed.fn = "parse_ber_length" =>
        LET pos == parsed.ret.info[1]
            new_pos == parsed.ret.info[2]
            length == parsed.ret.info[3]
            first == data[pos + 1]
            n == first - 128
        IN IF pos >= Len(data) THEN new_pos = pos /\ length = 0
           ELSE IF first < 128 THEN new_pos = pos + 1 /\ length = first
           ELSE IF first = 128 THEN new_pos = pos + 1 /\ length = 0
           ELSE IF pos + 1 + n > Len(data) THEN new_pos = pos + 1 /\ length = 0
           ELSE new_pos = pos + 1 + n /\ length = Octets(data, pos + 1, n)

C32_Witness ==
    /\ parsed.fn = "parse_ber_length"
    /\ Len(data) = 3
    /\ data[2] = 128
    /\ parsed.ret.info = <<1, 2, 0>>


\* the MMS type tags _parse_all_data_enhanced knows (lines 766-811)
KnownTags == {131, 132, 133, 134, 135, 137, 138, 140, 145}

\* a buffer read as a sequence of BER elements with definite lengths: ok says
\* whether it is one, items are the elements' tags and contents in wire order
RECURSIVE Elements(_)
Elements(buf) ==
    IF buf = <<>> THEN [ok |-> TRUE, items |-> <<>>]
    ELSE IF Len(buf) < 2 \/ buf[2] = 128 THEN [ok |-> FALSE, items |-> <<>>]
    ELSE LET n == IF buf[2] < 128 THEN 0 ELSE buf[2] - 128
             head == 2 + n
             length == IF n = 0 THEN buf[2]
                       ELSE IF head <= Len(buf) THEN Octets(buf, 2, n) ELSE 0
         IN IF head > Len(buf) \/ head + length > Len(buf)
            THEN [ok |-> FALSE, items |-> <<>>]
            ELSE LET rest == Elements(SubSeq(buf, head + length + 1, Len(buf)))
                 IN [ok |-> rest.ok,
                     items |-> <<[tag |-> buf[1],
                                  content |-> SubSeq(buf, head + 1, head + length)]>>
                               \o rest.items]

\* C33: for an allData made of k well-formed TLVs _parse_all_data_enhanced
\* returns k values, one per TLV in wire order, and the value of a TLV with an
\* unknown tag records that tag and the content
C33_AllDataKeepsEveryElement ==
    (parsed.fn = "parse_all_data_enhanced" /\ Elements(data).ok) =>
        LET items == Elements(data).items
            values == parsed.ret.info
        IN /\ Len(values) = Len(items)
           /\ \A i \in 1..Len(items) :
                IF items[i].tag \in KnownTags
                THEN values[i].type \notin {"Type", "ParseError"}
                ELSE /\ values[i].type = "Type"
                     /\ values[i].num = items[i].tag
                     /\ values[i].bytes = items[i].content

C33_Witness ==
    /\ parsed.fn = "parse_all_data_enhanced"
    /\ data = <<171, 1, 2, 131, 0>> \/ data = <<171, 0, 131, 0>>
    /\ Len(parsed.ret.info) = 2
    /\ parsed.ret.info[1].type = "Type" /\ parsed.ret.info[1].num = 171
    /\ parsed.ret.info[2].type = "boolean"



\* what the sniffer shows of a decoded message: the fields of the publication,
\* without the reserved bytes, the time and the lengths
Shown(info) ==
    [k \in {"appId", "goCbRef", "dataSet", "goID", "stNum", "sqNum", "confRev", "test",
            "ndsCom", "timeAllowedToLive"} |-> info[k]]

\* the values of a decoded message as the Python objects they are
ShownValues(info) == [i \in 1..Len(info["values"]) |-> python_value(info["values"][i])]

\* every publication through the encoder and the decoder
Echo == [q \in Publications |-> parse_goose_enhanced(encode(q)).ret.info]

\* C34: decoding the encoded frame of a publication with a non-empty dataset
\* gives the publication back: its header fields with their values, and every
\* dataset member with its type and value, so that no other publication
\* decodes to the same message
C34_RoundTrip ==
    (parsed.fn = "parse_goose_enhanced" /\ data = encode(pub)) =>
        /\ parsed.ret.info["appId"] = pub.appId
        /\ parsed.ret.info["goCbRef"] = pub.goCbRef
        /\ parsed.ret.info["dataSet"] = pub.datSet
        /\ parsed.ret.info["goID"] = pub.goID
        /\ parsed.ret.info["stNum"] = pub.stNum
        /\ parsed.ret.info["sqNum"] = pub.sqNum
        /\ parsed.ret.info["confRev"] = pub.confRev
        /\ parsed.ret.info["test"] = pub.test
        /\ parsed.ret.info["ndsCom"] = pub.ndsCom
        /\ parsed.ret.info["timeAllowedToLive"] = pub.timeAllowedToLive
        /\ Len(parsed.ret.info["values"]) = Len(pub.dataset)
        /\ \A q \in Publications :
             (Shown(Echo[q]) = Shown(parsed.ret.info)
              /\ ShownValues(Echo[q]) = ShownValues(parsed.ret.info)) => q = pub



\* whether the i-th captured message repeats the stNum of the message of its
\* goID captured last before it, with a sqNum above 0: read off the captured
\* sequence alone
RepeatsLast(i) ==
    /\ hist[i].sqNum > 0
    /\ \E j \in 1..(i - 1) :
         /\ hist[j].goID = hist[i].goID
         /\ hist[j].stNum = hist[i].stNum
         /\ \A k \in (j + 1)..(i - 1) : hist[k].goID # hist[i].goID

\* C35: the is_retransmission flag of a message depends on the captured
\* sequence only, not on the filter list or on the show-retransmissions
\* setting: every handled message, and so every forwarded one, carries the flag
\* the sequence of all captured messages determines
C35_FlagIndependentOfFilters ==
    /\ \A i \in 1..Len(hist) : hist[i].is_retransmission = RepeatsLast(i)
    /\ (out.emitted /\ hist # <<>>) => out.is_retransmission = RepeatsLast(Len(hist))

C35_Witness ==
    /\ filters # <<>>
    /\ Len(hist) = 3
    /\ message_count = 1
    /\ out.emitted
    /\ out.is_retransmission
    /\ ~show_retransmissions



\* publish_with_retransmission was the application's last call and has
\* returned, and there is neither a dataset nor a list of values
ReturnedWithoutDataset ==
    /\ th[App].pc \in {"op_done", "idle"}
    /\ th[App].mk = "retrans"
    /\ dataset = 0
    /\ dataset_values = 0

\* C36: after publish_with_retransmission has returned without a dataset, and
\* until the application's next call, no message is sent, no thread is started
\* and stNum and sqNum stay as they are; the schedule that was running has
\* been told to stop
C36_NoDatasetNoSchedule ==
    /\ [][ReturnedWithoutDataset =>
            /\ last' = last
            /\ st_num' = st_num /\ sq_num' = sq_num
            /\ thread' = thread
            /\ \A w \in Workers : th'[w].pc # "none" => th[w].pc # "none"]_vars
    /\ [](ReturnedWithoutDataset => (\A w \in Workers : is_alive(w) => stop_event))



\* publish() returns False because the transport reported an error
FailedSend == th[App].pc = "p_send" /\ th'[App].ret = "send_failed"

\* publish() returns True: the transport has accepted the message
GoodSend == th[App].pc = "p_send" /\ th'[App].ret = "ok"

\* C37: a failed send does not roll the counters back.  The step that returns
\* False leaves stNum and sqNum at the advanced values the refused message
\* carried; stNum never decreases; the next accepted message of the stNum
\* accepted last carries a sqNum at least 2 above the last accepted one when a
\* send failed in between, and exactly 1 above it otherwise; after a failed
\* publish(True) the stNum is above that of every accepted message
C37_FailedSendKeepsCounters ==
    /\ [][FailedSend => (st_num' = st_num /\ sq_num' = sq_num
                         /\ <<st_num', sq_num'>> = last' /\ last' # delivered')]_vars
    /\ [][st_num' >= st_num]_vars
    /\ [][(GoodSend /\ st_num = delivered[1] /\ delivered # <<0, 0>>) =>
            IF last = delivered THEN sq_num = delivered[2] + 1
            ELSE sq_num >= delivered[2] + 2]_vars
    /\ [][(FailedSend /\ th[App].inc) => st_num' > delivered'[1]]_vars

\* C37 witness: the retransmission after the accepted message <<1, 0>> has
\* failed: publish() has returned False and sqNum is 1
C37_Witness ==
    /\ th[App].pc = "op_done"
    /\ th[App].ret = "send_failed"
    /\ ~th[App].inc
    /\ delivered = <<1, 0>>
    /\ last = <<1, 1>>
    /\ sq_num = 1


\* stop() of session s has been called and has set the stop event
StopCalled(s) == sn[s].caller # "idle"

\* C38: once stop() has set the stop event, no message is handled: the map of
\* last messages stays as it is and nothing is forwarded
C38_NothingForwardedAfterStop ==
    [][StopCalled(1) => /\ last_messages' = last_messages
                        /\ hist' = hist
                        /\ message_count' = message_count
                        /\ out' = out]_vars



\* C39: send_test_goose(gcb_name) goes on to create_publisher and publish_goose
\* whenever an extracted control block has the name gcb_name, and returns
\* False as an unknown control block only for a name no extracted control
\* block has
C39_KnownBlockIsSent ==
    gh.fn = "send_test_goose" =>
        IF \E i \in 1..Len(gh.goose_controls) : gh.goose_controls[i].name = gh.arg
        THEN gh.printed \in {"create_failed", "published", "publish_error"}
        ELSE gh.ret = "False" /\ gh.printed = "unknown"

====
